---- MODULE Spec2Model ----
(***************************************************************************)
(* A model of the rules/legality core of mtga-coach: the mana grammar and  *)
(* payment algorithm (rules/mana_system.py), the turn-phase machine and    *)
(* priority protocol (rules/timing_rules.py), the match and player state   *)
(* (state/game_state.py, state/player_state.py), the legal-action          *)
(* generator (rules/legality_engine.py) and the combined legality check    *)
(* (rules/legality_integration.py, rules/card_restrictions.py).            *)
(*                                                                         *)
(* Python's None is NoPlayer (0) for a player id and NoPhase ("none") for  *)
(* a phase.  A cost expression is the sequence of its bracketed symbols,   *)
(* each symbol the sequence of its (upper-cased) characters: "{2}{W/U}"    *)
(* is << <<"2">>, <<"W","/","U">> >>.                                      *)
(***************************************************************************)
EXTENDS Integers, Sequences, FiniteSets, TLC

VARIABLES
    status,                     \* GameState.status
    turn_number,                \* GameState.turn_number
    current_phase,              \* GameState.current_phase
    active_player,              \* GameState.active_player
    priority_player,            \* GameState.priority_player
    priority_passed,            \* TimingRules.priority_passed
    life_total,                 \* PlayerState.life_total, per player
    mana_pool,                  \* PlayerState.mana_pool, per player
    energy_counters,            \* PlayerState.energy_counters, per player
    has_played_land_this_turn,  \* PlayerState flag, per player
    has_attacked_this_turn,     \* PlayerState flag, per player
    has_used_ability_this_turn, \* PlayerState set of ability names, per player
    hand,                       \* PlayerState.hand.cards, per player
    battlefield,                \* PlayerState.battlefield, per player
    legal_actions_cache,        \* LegalityEngine.legal_actions_cache
    cache_age,                  \* now - LegalityEngine.cache_timestamp, in ticks
    generated_age,              \* history: the time since the cached list of a
                                \* player was generated, in ticks
    land_play_applied,          \* history: a land play was applied this turn, per player
    last                        \* the last call made and what it returned

gameVars == <<status, turn_number, current_phase, active_player>>
prioVars == <<priority_player, priority_passed>>
manaVars == <<life_total, mana_pool, energy_counters>>
flagVars == <<has_played_land_this_turn, has_attacked_this_turn,
              has_used_ability_this_turn>>
zoneVars == <<hand, battlefield>>
cacheVars == <<legal_actions_cache, cache_age, generated_age>>
histVars == <<land_play_applied>>
vars == <<gameVars, prioVars, manaVars, flagVars, zoneVars, cacheVars, histVars, last>>

----------------------------------------------------------------------------
(* Bounds of the model *)

MaxCostLen == 2
MaxPoolTotal == 2
StartingLife == 3
MaxTurn == 1
\* the ticks of the clock in a second
TicksPerSecond == 2

----------------------------------------------------------------------------
(* Players and phases *)

NoPlayer == 0
SelfId == 1
OpponentId == 2
Players == {SelfId, OpponentId}

NoPhase == "none"

\* no time: cache_timestamp is None
NoAge == -1

\* parser/events.py: the members of the enumeration Phase, name |-> value
Phase ==
    [UNTAP |-> "untap", UPKEEP |-> "upkeep", DRAW |-> "draw",
     FIRST_MAIN |-> "first_main", COMBAT_BEGIN |-> "combat_begin",
     DECLARE_ATTACKERS |-> "declare_attackers",
     DECLARE_BLOCKERS |-> "declare_blockers",
     COMBAT_DAMAGE |-> "combat_damage", COMBAT_END |-> "combat_end",
     SECOND_MAIN |-> "second_main", END_STEP |-> "end_step",
     CLEANUP |-> "cleanup"]

Phases == {Phase[m] : m \in DOMAIN Phase}

\* the fixed cycle of the turn: the members of Phase in declaration order
PhaseOrder ==
    <<"untap", "upkeep", "draw", "first_main", "combat_begin",
      "declare_attackers", "declare_blockers", "combat_damage",
      "combat_end", "second_main", "end_step", "cleanup">>

\* the successor of a phase in the fixed cycle, Cleanup wrapping to Untap
Successor(phase) ==
    LET i == CHOOSE k \in 1..Len(PhaseOrder) : PhaseOrder[k] = phase
    IN PhaseOrder[(i % Len(PhaseOrder)) + 1]

----------------------------------------------------------------------------
(* state/player_state.py: ManaPool *)

Colors == <<"white", "blue", "black", "red", "green", "colorless">>

ColorSet == {Colors[i] : i \in 1..Len(Colors)}

ManaPool == [c \in ColorSet |-> 0]

total_mana(pool) ==
    pool["white"] + pool["blue"] + pool["black"] + pool["red"]
        + pool["green"] + pool["colorless"]

\* PlayerState.take_damage, as the new life total
take_damage(life, amount) ==
    IF amount <= 0 THEN life
    ELSE IF life - amount > 0 THEN life - amount ELSE 0

\* the part of a PlayerState that the mana system reads and writes
PlayerOf(p) ==
    [mana_pool |-> mana_pool[p],
     life_total |-> life_total[p],
     energy_counters |-> energy_counters[p]]

----------------------------------------------------------------------------
(* rules/mana_system.py: ManaCost *)

Digits == {"0", "1", "2", "3", "4", "5", "6", "7", "8", "9"}

DigitValue(ch) ==
    CASE ch = "0" -> 0 [] ch = "1" -> 1 [] ch = "2" -> 2 [] ch = "3" -> 3
      [] ch = "4" -> 4 [] ch = "5" -> 5 [] ch = "6" -> 6 [] ch = "7" -> 7
      [] ch = "8" -> 8 [] ch = "9" -> 9

\* str.isdigit()
isdigit(symbol) == Len(symbol) > 0 /\ \A i \in 1..Len(symbol) : symbol[i] \in Digits

\* int(symbol) for a digit string
RECURSIVE int(_)
int(symbol) ==
    IF Len(symbol) = 0 THEN 0
    ELSE 10 * int(SubSeq(symbol, 1, Len(symbol) - 1)) + DigitValue(symbol[Len(symbol)])

\* ch in symbol
Contains(symbol, ch) == \E i \in 1..Len(symbol) : symbol[i] = ch

\* symbol.split('/')
RECURSIVE split(_)
split(symbol) ==
    IF ~Contains(symbol, "/") THEN <<symbol>>
    ELSE LET i == CHOOSE k \in 1..Len(symbol) :
                      symbol[k] = "/" /\ \A j \in 1..(k - 1) : symbol[j] # "/"
         IN <<SubSeq(symbol, 1, i - 1)>> \o split(SubSeq(symbol, i + 1, Len(symbol)))

\* symbol.replace('P', '')
RECURSIVE replaceP(_)
replaceP(symbol) ==
    IF Len(symbol) = 0 THEN <<>>
    ELSE IF Head(symbol) = "P" THEN replaceP(Tail(symbol))
    ELSE <<Head(symbol)>> \o replaceP(Tail(symbol))

\* ManaCost.__init__: the fields before parsing
EmptyCost ==
    [white |-> 0, blue |-> 0, black |-> 0, red |-> 0, green |-> 0,
     colorless |-> 0, generic |-> 0, hybrid |-> <<>>, phyrexian |-> <<>>,
     snow |-> 0, energy |-> 0, life |-> 0]

\* one iteration of the loop of ManaCost._parse_cost
ParseSymbol(cost, symbol) ==
    IF symbol = <<"W">> THEN [cost EXCEPT !.white = @ + 1]
    ELSE IF symbol = <<"U">> THEN [cost EXCEPT !.blue = @ + 1]
    ELSE IF symbol = <<"B">> THEN [cost EXCEPT !.black = @ + 1]
    ELSE IF symbol = <<"R">> THEN [cost EXCEPT !.red = @ + 1]
    ELSE IF symbol = <<"G">> THEN [cost EXCEPT !.green = @ + 1]
    ELSE IF symbol = <<"C">> THEN [cost EXCEPT !.colorless = @ + 1]
    ELSE IF isdigit(symbol) THEN [cost EXCEPT !.generic = @ + int(symbol)]
    ELSE IF Contains(symbol, "/") THEN [cost EXCEPT !.hybrid = Append(@, symbol)]
    ELSE IF Contains(symbol, "P") THEN [cost EXCEPT !.phyrexian = Append(@, symbol)]
    ELSE IF Contains(symbol, "S") THEN [cost EXCEPT !.snow = @ + 1]
    ELSE IF Contains(symbol, "E") THEN [cost EXCEPT !.energy = @ + 1]
    ELSE IF Contains(symbol, "L") THEN [cost EXCEPT !.life = @ + 1]
    ELSE cost

\* ManaCost._parse_cost
RECURSIVE _parse_cost(_)
_parse_cost(cost_string) ==
    IF Len(cost_string) = 0 THEN EmptyCost
    ELSE ParseSymbol(_parse_cost(SubSeq(cost_string, 1, Len(cost_string) - 1)),
                     cost_string[Len(cost_string)])

\* ManaCost.get_total_cost
get_total_cost(cost) ==
    cost.white + cost.blue + cost.black + cost.red + cost.green
        + cost.colorless + cost.generic + Len(cost.hybrid)
        + Len(cost.phyrexian) + cost.snow

----------------------------------------------------------------------------
(* rules/mana_system.py: ManaSystem, payability *)

\* _can_pay_basic_mana without the reservation of the colored pips: the
\* generic amount is compared with the whole pool
_can_pay_basic_mana_unreserved(cost, player) ==
    LET pool == player.mana_pool
    IN IF pool["white"] < cost.white THEN FALSE
       ELSE IF pool["blue"] < cost.blue THEN FALSE
       ELSE IF pool["black"] < cost.black THEN FALSE
       ELSE IF pool["red"] < cost.red THEN FALSE
       ELSE IF pool["green"] < cost.green THEN FALSE
       ELSE IF pool["colorless"] < cost.colorless THEN FALSE
       ELSE IF total_mana(pool) < cost.generic THEN FALSE
       ELSE TRUE

\* ManaSystem._can_pay_basic_mana
_can_pay_basic_mana(cost, player) ==
    LET pool == player.mana_pool
        available_generic ==
            total_mana(pool) - (cost.white + cost.blue + cost.black + cost.red
                                    + cost.green + cost.colorless)
    IN IF pool["white"] < cost.white THEN FALSE
       ELSE IF pool["blue"] < cost.blue THEN FALSE
       ELSE IF pool["black"] < cost.black THEN FALSE
       ELSE IF pool["red"] < cost.red THEN FALSE
       ELSE IF pool["green"] < cost.green THEN FALSE
       ELSE IF pool["colorless"] < cost.colorless THEN FALSE
       ELSE IF available_generic < cost.generic THEN FALSE
       ELSE TRUE

\* ManaSystem._can_pay_mana_symbol
_can_pay_mana_symbol(symbol, pool) ==
    IF symbol = <<"W">> THEN pool["white"] > 0
    ELSE IF symbol = <<"U">> THEN pool["blue"] > 0
    ELSE IF symbol = <<"B">> THEN pool["black"] > 0
    ELSE IF symbol = <<"R">> THEN pool["red"] > 0
    ELSE IF symbol = <<"G">> THEN pool["green"] > 0
    ELSE IF symbol = <<"C">> THEN pool["colorless"] > 0
    ELSE IF isdigit(symbol) THEN total_mana(pool) >= int(symbol)
    ELSE FALSE

\* ManaSystem._can_pay_hybrid_symbol
_can_pay_hybrid_symbol(symbol, pool) ==
    IF ~Contains(symbol, "/") THEN FALSE
    ELSE LET options == split(symbol)
         IN \E i \in 1..Len(options) : _can_pay_mana_symbol(options[i], pool)

\* ManaSystem._can_pay_hybrid_mana
_can_pay_hybrid_mana(cost, player) ==
    \A i \in 1..Len(cost.hybrid) :
        _can_pay_hybrid_symbol(cost.hybrid[i], player.mana_pool)

\* ManaSystem._can_pay_phyrexian_symbol
_can_pay_phyrexian_symbol(symbol, player) ==
    IF Contains(symbol, "P")
    THEN IF player.life_total >= 2 THEN TRUE
         ELSE LET color == replaceP(symbol)
              IN IF color = <<"W">> THEN player.mana_pool["white"] > 0
                 ELSE IF color = <<"U">> THEN player.mana_pool["blue"] > 0
                 ELSE IF color = <<"B">> THEN player.mana_pool["black"] > 0
                 ELSE IF color = <<"R">> THEN player.mana_pool["red"] > 0
                 ELSE IF color = <<"G">> THEN player.mana_pool["green"] > 0
                 ELSE IF color = <<"C">> THEN player.mana_pool["colorless"] > 0
                 ELSE FALSE
    ELSE FALSE

\* ManaSystem._can_pay_phyrexian_mana
_can_pay_phyrexian_mana(cost, player) ==
    \A i \in 1..Len(cost.phyrexian) :
        _can_pay_phyrexian_symbol(cost.phyrexian[i], player)

\* ManaSystem._can_pay_snow_mana
_can_pay_snow_mana(cost, player) == cost.snow = 0

\* ManaSystem._can_pay_energy
_can_pay_energy(cost, player) == player.energy_counters >= cost.energy

\* ManaSystem._can_pay_life
_can_pay_life(cost, player) == player.life_total >= cost.life

\* ManaSystem._can_pay_mana_cost
_can_pay_mana_cost(cost, player) ==
    IF ~_can_pay_basic_mana(cost, player) THEN FALSE
    ELSE IF ~_can_pay_hybrid_mana(cost, player) THEN FALSE
    ELSE IF ~_can_pay_phyrexian_mana(cost, player) THEN FALSE
    ELSE IF ~_can_pay_snow_mana(cost, player) THEN FALSE
    ELSE IF ~_can_pay_energy(cost, player) THEN FALSE
    ELSE IF ~_can_pay_life(cost, player) THEN FALSE
    ELSE TRUE

\* ManaSystem.can_pay_cost
can_pay_cost(cost_string, player) ==
    IF Len(cost_string) = 0 THEN TRUE
    ELSE _can_pay_mana_cost(_parse_cost(cost_string), player)

----------------------------------------------------------------------------
(* rules/mana_system.py: ManaSystem, payment.  A payment operator yields   *)
(* [ret, player] (or [ret, pool]): the value returned and the state the    *)
(* call leaves behind, the debits made before a failure included.          *)

\* the greedy debit loop shared by _pay_basic_mana and _pay_mana_symbol:
\* one mana per iteration from the first non-zero counter in the order
\* white, blue, black, red, green, colorless
RECURSIVE PayGeneric(_, _)
PayGeneric(pool, amount) ==
    IF amount = 0 THEN [ret |-> TRUE, pool |-> pool]
    ELSE IF pool["white"] > 0 THEN PayGeneric([pool EXCEPT !["white"] = @ - 1], amount - 1)
    ELSE IF pool["blue"] > 0 THEN PayGeneric([pool EXCEPT !["blue"] = @ - 1], amount - 1)
    ELSE IF pool["black"] > 0 THEN PayGeneric([pool EXCEPT !["black"] = @ - 1], amount - 1)
    ELSE IF pool["red"] > 0 THEN PayGeneric([pool EXCEPT !["red"] = @ - 1], amount - 1)
    ELSE IF pool["green"] > 0 THEN PayGeneric([pool EXCEPT !["green"] = @ - 1], amount - 1)
    ELSE IF pool["colorless"] > 0
        THEN PayGeneric([pool EXCEPT !["colorless"] = @ - 1], amount - 1)
    ELSE [ret |-> FALSE, pool |-> pool]

\* a payment that takes the generic pips from the colorless counter before
\* any colored one
_pay_basic_mana_colorless_first(cost, player) ==
    LET pool == player.mana_pool
        colored == [pool EXCEPT !["white"] = @ - cost.white,
                                !["blue"] = @ - cost.blue,
                                !["black"] = @ - cost.black,
                                !["red"] = @ - cost.red,
                                !["green"] = @ - cost.green,
                                !["colorless"] = @ - cost.colorless]
        taken == IF colored["colorless"] < cost.generic
                 THEN colored["colorless"] ELSE cost.generic
        paid == PayGeneric([colored EXCEPT !["colorless"] = @ - taken],
                           cost.generic - taken)
    IN [ret |-> paid.ret, player |-> [player EXCEPT !.mana_pool = paid.pool]]

\* ManaSystem._pay_basic_mana
_pay_basic_mana(cost, player) ==
    LET pool == player.mana_pool
        colored == [pool EXCEPT !["white"] = @ - cost.white,
                                !["blue"] = @ - cost.blue,
                                !["black"] = @ - cost.black,
                                !["red"] = @ - cost.red,
                                !["green"] = @ - cost.green,
                                !["colorless"] = @ - cost.colorless]
        paid == PayGeneric(colored, cost.generic)
    IN [ret |-> paid.ret, player |-> [player EXCEPT !.mana_pool = paid.pool]]

\* ManaSystem._pay_mana_symbol
_pay_mana_symbol(symbol, pool) ==
    IF symbol = <<"W">> THEN [ret |-> TRUE, pool |-> [pool EXCEPT !["white"] = @ - 1]]
    ELSE IF symbol = <<"U">> THEN [ret |-> TRUE, pool |-> [pool EXCEPT !["blue"] = @ - 1]]
    ELSE IF symbol = <<"B">> THEN [ret |-> TRUE, pool |-> [pool EXCEPT !["black"] = @ - 1]]
    ELSE IF symbol = <<"R">> THEN [ret |-> TRUE, pool |-> [pool EXCEPT !["red"] = @ - 1]]
    ELSE IF symbol = <<"G">> THEN [ret |-> TRUE, pool |-> [pool EXCEPT !["green"] = @ - 1]]
    ELSE IF symbol = <<"C">>
        THEN [ret |-> TRUE, pool |-> [pool EXCEPT !["colorless"] = @ - 1]]
    ELSE IF isdigit(symbol) THEN PayGeneric(pool, int(symbol))
    ELSE [ret |-> FALSE, pool |-> pool]

\* the loop of ManaSystem._pay_hybrid_symbol from option i on
RECURSIVE PayFirstOption(_, _, _)
PayFirstOption(options, i, pool) ==
    IF i > Len(options) THEN [ret |-> FALSE, pool |-> pool]
    ELSE IF _can_pay_mana_symbol(options[i], pool)
        THEN _pay_mana_symbol(options[i], pool)
    ELSE PayFirstOption(options, i + 1, pool)

\* _pay_hybrid_symbol paying with the first option whether or not the pool
\* holds it
_pay_hybrid_symbol_first_option(symbol, player) ==
    LET paid == _pay_mana_symbol(split(symbol)[1], player.mana_pool)
    IN [ret |-> paid.ret, player |-> [player EXCEPT !.mana_pool = paid.pool]]

\* ManaSystem._pay_hybrid_symbol
_pay_hybrid_symbol(symbol, player) ==
    LET paid == PayFirstOption(split(symbol), 1, player.mana_pool)
    IN [ret |-> paid.ret, player |-> [player EXCEPT !.mana_pool = paid.pool]]

\* ManaSystem._pay_phyrexian_symbol
_pay_phyrexian_symbol(symbol, player) ==
    IF Contains(symbol, "P")
    THEN LET color == replaceP(symbol)
         IN IF _can_pay_mana_symbol(color, player.mana_pool)
            THEN LET paid == _pay_mana_symbol(color, player.mana_pool)
                 IN [ret |-> paid.ret,
                     player |-> [player EXCEPT !.mana_pool = paid.pool]]
            ELSE IF player.life_total >= 2
            THEN [ret |-> TRUE,
                  player |-> [player EXCEPT
                                  !.life_total = take_damage(@, 2)]]
            ELSE [ret |-> FALSE, player |-> player]
    ELSE [ret |-> FALSE, player |-> player]

\* the loops of _pay_hybrid_mana and _pay_phyrexian_mana from symbol i on:
\* stop at the first symbol that cannot be paid
RECURSIVE PayEach(_, _, _, _)
PayEach(phyrexian, symbols, i, player) ==
    IF i > Len(symbols) THEN [ret |-> TRUE, player |-> player]
    ELSE LET paid == IF phyrexian THEN _pay_phyrexian_symbol(symbols[i], player)
                     ELSE _pay_hybrid_symbol(symbols[i], player)
         IN IF ~paid.ret THEN [ret |-> FALSE, player |-> paid.player]
            ELSE PayEach(phyrexian, symbols, i + 1, paid.player)

\* ManaSystem._pay_hybrid_mana
_pay_hybrid_mana(cost, player) == PayEach(FALSE, cost.hybrid, 1, player)

\* ManaSystem._pay_phyrexian_mana
_pay_phyrexian_mana(cost, player) == PayEach(TRUE, cost.phyrexian, 1, player)

\* ManaSystem._pay_snow_mana
_pay_snow_mana(cost, player) == [ret |-> cost.snow = 0, player |-> player]

\* ManaSystem._pay_energy
_pay_energy(cost, player) ==
    IF player.energy_counters >= cost.energy
    THEN [ret |-> TRUE, player |-> [player EXCEPT !.energy_counters = @ - cost.energy]]
    ELSE [ret |-> FALSE, player |-> player]

\* ManaSystem._pay_life
_pay_life(cost, player) ==
    IF player.life_total >= cost.life
    THEN [ret |-> TRUE,
          player |-> [player EXCEPT !.life_total = take_damage(@, cost.life)]]
    ELSE [ret |-> FALSE, player |-> player]

\* ManaSystem._pay_mana_cost
_pay_mana_cost(cost, player) ==
    LET basic == _pay_basic_mana(cost, player)
        hybrid == _pay_hybrid_mana(cost, basic.player)
        phyrexian == _pay_phyrexian_mana(cost, hybrid.player)
        snow == _pay_snow_mana(cost, phyrexian.player)
        energy == _pay_energy(cost, snow.player)
        life == _pay_life(cost, energy.player)
    IN IF ~basic.ret THEN basic
       ELSE IF ~hybrid.ret THEN hybrid
       ELSE IF ~phyrexian.ret THEN phyrexian
       ELSE IF ~snow.ret THEN snow
       ELSE IF ~energy.ret THEN energy
       ELSE life

\* ManaSystem.pay_cost
pay_cost(cost_string, player) ==
    IF Len(cost_string) = 0 THEN [ret |-> TRUE, player |-> player]
    ELSE LET cost == _parse_cost(cost_string)
         IN IF ~_can_pay_mana_cost(cost, player)
            THEN [ret |-> FALSE, player |-> player]
            ELSE _pay_mana_cost(cost, player)

----------------------------------------------------------------------------
(* The cost expressions tried, and the initial state *)

\* the symbols the cost expressions are made of
Symbols ==
    { <<"W">>, <<"C">>, <<"2">>,
      <<"W", "/", "U">>, <<"2", "/", "U">>, <<"W", "/", "P">>, <<"W", "P">>,
      <<"S">>, <<"E">>, <<"L">>, <<"X">> }

Costs == UNION {[1..n -> Symbols] : n \in 0..MaxCostLen}

\* the first letter of a color name, as PlayerState.add_mana takes it
Letter(color) ==
    CASE color = "white" -> "w" [] color = "blue" -> "u" [] color = "black" -> "b"
      [] color = "red" -> "r" [] color = "green" -> "g" [] color = "colorless" -> "c"

NoCall == [op |-> "none", player |-> NoPlayer, ret |-> TRUE]

Call(op, p, ret) == [op |-> op, player |-> p, ret |-> ret]

\* Battlefield(): the six partitions, empty
Battlefield ==
    [creatures |-> <<>>, lands |-> <<>>, artifacts |-> <<>>,
     enchantments |-> <<>>, planeswalkers |-> <<>>, other |-> <<>>]

\* GameState() then initialize_game(SelfId, OpponentId, StartingLife), with
\* TimingRules(game_state) and LegalityEngine(game_state) built on it: all
\* but the battlefields
NewGame ==
    /\ status = "active"
    /\ turn_number = 0
    /\ current_phase = NoPhase
    /\ active_player = NoPlayer
    /\ priority_player = NoPlayer
    /\ priority_passed = {}
    /\ life_total = [p \in Players |-> StartingLife]
    /\ mana_pool = [p \in Players |-> ManaPool]
    /\ has_played_land_this_turn = [p \in Players |-> FALSE]
    /\ has_attacked_this_turn = [p \in Players |-> FALSE]
    /\ has_used_ability_this_turn = [p \in Players |-> {}]
    /\ hand = [p \in Players |-> <<>>]
    /\ legal_actions_cache = [p \in Players |-> <<>>]
    /\ cache_age = NoAge
    /\ generated_age = [p \in Players |-> NoAge]
    /\ land_play_applied = [p \in Players |-> FALSE]
    /\ last = NoCall

initialize_game ==
    /\ NewGame
    /\ battlefield = [p \in Players |-> Battlefield]

Init ==
    /\ initialize_game
    /\ energy_counters = [p \in Players |-> 0]

----------------------------------------------------------------------------
(* state/game_state.py and state/player_state.py: turn and phase *)

\* GameState.set_active_player, for a registered player
set_active_player(p) ==
    /\ active_player' = p
    /\ last' = Call("set_active_player", p, TRUE)
    /\ UNCHANGED <<status, turn_number, current_phase, prioVars, manaVars,
                   flagVars, zoneVars, cacheVars, histVars>>

\* GameState._process_phase_change, reached from process_event: set_phase
_process_phase_change(new_phase) ==
    /\ current_phase' = new_phase
    /\ last' = Call("process_event", NoPlayer, TRUE)
    /\ UNCHANGED <<status, turn_number, active_player, prioVars, manaVars,
                   flagVars, zoneVars, cacheVars, histVars>>

\* GameState._process_turn_change, reached from process_event
_process_turn_change(new_turn, p) ==
    /\ turn_number' = new_turn
    /\ active_player' = p
    /\ land_play_applied' = IF new_turn = turn_number THEN land_play_applied
                             ELSE [q \in Players |-> FALSE]
    /\ last' = Call("process_event", p, TRUE)
    /\ UNCHANGED <<status, current_phase, prioVars, manaVars, flagVars,
                   zoneVars, cacheVars>>

\* PlayerState.use_ability
use_ability(p, ability_name) ==
    /\ has_used_ability_this_turn' =
           [has_used_ability_this_turn EXCEPT ![p] = @ \cup {ability_name}]
    /\ last' = Call("use_ability", p, TRUE)
    /\ UNCHANGED <<gameVars, prioVars, manaVars, has_played_land_this_turn,
                   has_attacked_this_turn, zoneVars, cacheVars, histVars>>

\* PlayerState.reset_turn_flags, for both players
reset_turn_flags ==
    /\ has_played_land_this_turn' = [p \in Players |-> FALSE]
    /\ has_attacked_this_turn' = [p \in Players |-> FALSE]
    /\ has_used_ability_this_turn' = [p \in Players |-> {}]

\* GameState.next_turn
next_turn ==
    /\ turn_number < MaxTurn
    /\ turn_number' = turn_number + 1
    /\ reset_turn_flags
    /\ land_play_applied' = [q \in Players |-> FALSE]
    /\ last' = Call("next_turn", NoPlayer, TRUE)
    /\ UNCHANGED <<status, current_phase, active_player, prioVars, manaVars,
                   zoneVars, cacheVars>>

----------------------------------------------------------------------------
(* rules/timing_rules.py: TimingRules *)

\* TimingRules._player_has_priority
_player_has_priority(player_id) ==
    IF active_player = player_id THEN TRUE
    ELSE IF priority_player = player_id THEN TRUE
    ELSE IF player_id \in priority_passed THEN FALSE
    ELSE TRUE

\* TimingRules._all_players_passed_priority, given the pass set
_all_players_passed_priority(passed) == \A p \in {SelfId, OpponentId} : p \in passed

\* a _move_to_next_player that stops at the last player instead of wrapping
_move_to_next_player_unwrapped ==
    LET players == <<SelfId, OpponentId>>
        current_player == IF priority_player = NoPlayer THEN active_player
                          ELSE priority_player
        current_index == IF \E i \in 1..Len(players) : players[i] = current_player
                         THEN (CHOOSE i \in 1..Len(players) : players[i] = current_player) - 1
                         ELSE 0
        next_index == IF current_index + 1 < Len(players) THEN current_index + 1
                      ELSE current_index
    IN players[next_index + 1]

\* TimingRules._move_to_next_player, as the new priority holder
_move_to_next_player ==
    LET players == <<SelfId, OpponentId>>
        current_player == IF priority_player = NoPlayer THEN active_player
                          ELSE priority_player
        current_index == IF \E i \in 1..Len(players) : players[i] = current_player
                         THEN (CHOOSE i \in 1..Len(players) : players[i] = current_player) - 1
                         ELSE 0
        next_index == (current_index + 1) % Len(players)
    IN players[next_index + 1]

\* the if/elif chain of TimingRules._advance_phase: the member of Phase each
\* branch compares current_phase with, and the member it passes to set_phase
\* (the last branch calls _end_turn instead)
Branches ==
    << <<"UNTAP", "UPKEEP">>, <<"UPKEEP", "DRAW">>, <<"DRAW", "FIRST_MAIN">>,
       <<"FIRST_MAIN", "COMBAT_BEGIN">>, <<"COMBAT_BEGIN", "DECLARE_ATTACKERS">>,
       <<"DECLARE_ATTACKERS", "DECLARE_BLOCKERS">>,
       <<"DECLARE_BLOCKERS", "COMBAT_DAMAGE">>, <<"COMBAT_DAMAGE", "END_COMBAT">>,
       <<"END_COMBAT", "SECOND_MAIN">>, <<"SECOND_MAIN", "END_STEP">>,
       <<"END_STEP", "CLEANUP">>, <<"CLEANUP", "_end_turn">> >>

\* what _advance_phase does: "set_phase" to a phase, "_end_turn", "raise"
\* (an AttributeError for a name Phase does not have, logged and swallowed
\* by _advance_phase itself) or "none" (no branch taken)
RECURSIVE AdvanceFrom(_, _)
AdvanceFrom(i, phase) ==
    IF i > Len(Branches) THEN [do |-> "none", phase |-> phase]
    ELSE IF Branches[i][1] \notin DOMAIN Phase THEN [do |-> "raise", phase |-> phase]
    ELSE IF phase = Phase[Branches[i][1]]
        THEN IF Branches[i][2] = "_end_turn" THEN [do |-> "_end_turn", phase |-> phase]
             ELSE IF Branches[i][2] \notin DOMAIN Phase
                 THEN [do |-> "raise", phase |-> phase]
             ELSE [do |-> "set_phase", phase |-> Phase[Branches[i][2]]]
    ELSE AdvanceFrom(i + 1, phase)

\* TimingRules._end_turn: the flags reset, next_turn, set_phase(Phase.UNTAP)
_end_turn ==
    /\ reset_turn_flags
    /\ turn_number' = turn_number + 1
    /\ current_phase' = Phase["UNTAP"]
    /\ land_play_applied' = [q \in Players |-> FALSE]

\* TimingRules._advance_phase
_advance_phase ==
    LET step == AdvanceFrom(1, current_phase)
    IN IF step.do = "_end_turn"
       THEN turn_number < MaxTurn /\ _end_turn
       ELSE /\ current_phase' = IF step.do = "set_phase" THEN step.phase
                                ELSE current_phase
            /\ UNCHANGED <<turn_number, flagVars, histVars>>

\* TimingRules.pass_priority: _resolve_priority once both have passed,
\* _move_to_next_player otherwise
pass_priority(player_id) ==
    LET passed == priority_passed \cup {player_id}
    IN /\ IF _all_players_passed_priority(passed)
          THEN /\ priority_passed' = {}
               /\ _advance_phase
               /\ UNCHANGED priority_player
          ELSE /\ priority_passed' = passed
               /\ priority_player' = _move_to_next_player
               /\ UNCHANGED <<turn_number, current_phase, flagVars, histVars>>
       /\ last' = Call("pass_priority", player_id, TRUE)
       /\ UNCHANGED <<status, active_player, manaVars, zoneVars, cacheVars>>

\* PlayerState.add_mana(letter, 1)
add_mana(p, color) ==
    /\ total_mana(mana_pool[p]) < MaxPoolTotal
    /\ Letter(color) \in {"w", "u", "b", "r", "g", "c"}
    /\ mana_pool' = [mana_pool EXCEPT ![p][color] = @ + 1]
    /\ last' = Call("add_mana", p, TRUE)
    /\ UNCHANGED <<gameVars, prioVars, life_total, energy_counters, flagVars,
                   zoneVars, cacheVars, histVars>>

\* the ability names used
Abilities == {"general"}

\* the color of the mana added while the turn goes on
TurnColors == {"white"}

Next ==
    \/ \E p \in Players : set_active_player(p)
    \/ \E new_phase \in Phases : _process_phase_change(new_phase)
    \/ \E new_turn \in 0..MaxTurn, p \in Players : _process_turn_change(new_turn, p)
    \/ \E p \in Players, ability_name \in Abilities : use_ability(p, ability_name)
    \/ next_turn
    \/ \E p \in Players, color \in TurnColors : add_mana(p, color)
    \/ \E p \in Players : pass_priority(p)

Spec == Init /\ [][Next]_vars

----------------------------------------------------------------------------
(* parser/events.py and state: cards and the zones they move between *)

\* the fields of the CardInfo model
CardInfoFields ==
    {"instance_id", "grp_id", "name", "mana_cost", "cmc", "power", "toughness",
     "card_types", "colors", "abilities", "keywords", "controller", "zone_id",
     "zone_type", "visibility", "counters"}

\* the CardType enumeration
CardType ==
    [CREATURE |-> "creature", INSTANT |-> "instant", SORCERY |-> "sorcery",
     ENCHANTMENT |-> "enchantment", ARTIFACT |-> "artifact",
     PLANESWALKER |-> "planeswalker", LAND |-> "land"]

\* the names bound in the namespace of state/game_state.py
GameStateNames ==
    {"Dict", "List", "Optional", "Set", "Callable", "datetime", "BaseModel",
     "Field", "Enum", "GameEvent", "EventType", "Phase", "ZoneType", "CardInfo",
     "PlayerState", "PlayerType", "ManaPool", "GameStatus", "GameState"}

\* the cards the log speaks of, by instance_id: two copies of a legendary
\* land, a creature, a basic land, an artifact and two copies of a
\* planeswalker (power 0 stands for no power)
Cards ==
    << [instance_id |-> 1, name |-> "Urborg, Tomb of Yawgmoth", mana_cost |-> <<>>,
        card_types |-> <<"land">>, abilities |-> <<>>, power |-> 0],
       [instance_id |-> 2, name |-> "Urborg, Tomb of Yawgmoth", mana_cost |-> <<>>,
        card_types |-> <<"land">>, abilities |-> <<>>, power |-> 0],
       [instance_id |-> 3, name |-> "Grizzly Bears",
        mana_cost |-> << <<"1">>, <<"G">> >>,
        card_types |-> <<"creature">>, abilities |-> <<>>, power |-> 2],
       [instance_id |-> 4, name |-> "Plains", mana_cost |-> <<>>,
        card_types |-> <<"land">>, abilities |-> <<>>, power |-> 0],
       [instance_id |-> 5, name |-> "Mana Vault", mana_cost |-> << <<"1">> >>,
        card_types |-> <<"artifact">>, abilities |-> <<>>, power |-> 0],
       [instance_id |-> 6, name |-> "Wrenn and Six",
        mana_cost |-> << <<"R">>, <<"G">> >>,
        card_types |-> <<"planeswalker">>, abilities |-> <<>>, power |-> 0],
       [instance_id |-> 7, name |-> "Wrenn and Six",
        mana_cost |-> << <<"R">>, <<"G">> >>,
        card_types |-> <<"planeswalker">>, abilities |-> <<>>, power |-> 0] >>

CardIds == DOMAIN Cards

\* the type line the card data holds for a card name
type_line(name) ==
    IF name = "Urborg, Tomb of Yawgmoth" THEN <<"Legendary", "Land">>
    ELSE IF name = "Plains" THEN <<"Basic", "Land", "Plains">>
    ELSE IF name = "Mana Vault" THEN <<"Artifact">>
    ELSE IF name = "Wrenn and Six" THEN <<"Legendary", "Planeswalker", "Wrenn">>
    ELSE <<"Creature", "Bear">>

\* x in xs, for a list
In(x, xs) == \E i \in 1..Len(xs) : xs[i] = x

\* Hand.max_size
max_size == 7

\* an add_card that never looks at the size of the hand
HandAddCardUnbounded(cards, card) == Append(cards, card)

\* Hand.add_card
HandAddCard(cards, card) ==
    IF Len(cards) < max_size THEN Append(cards, card) ELSE cards

\* Hand.remove_card: the list without the first card of that instance_id
RemoveCard(cards, card) ==
    LET i == CHOOSE k \in 1..Len(cards) :
                 cards[k] = card /\ \A j \in 1..(k - 1) : cards[j] # card
    IN SubSeq(cards, 1, i - 1) \o SubSeq(cards, i + 1, Len(cards))

\* Battlefield.add_card: the card joins the first partition its types name
BattlefieldAddCard(bf, card) ==
    LET types == Cards[card].card_types
    IN IF In(CardType.CREATURE, types) THEN [bf EXCEPT !.creatures = Append(@, card)]
       ELSE IF In(CardType.LAND, types) THEN [bf EXCEPT !.lands = Append(@, card)]
       ELSE IF In(CardType.ARTIFACT, types) THEN [bf EXCEPT !.artifacts = Append(@, card)]
       ELSE IF In(CardType.ENCHANTMENT, types)
           THEN [bf EXCEPT !.enchantments = Append(@, card)]
       ELSE IF In(CardType.PLANESWALKER, types)
           THEN [bf EXCEPT !.planeswalkers = Append(@, card)]
       ELSE [bf EXCEPT !.other = Append(@, card)]

\* Battlefield.get_all_cards
get_all_cards(bf) ==
    bf.creatures \o bf.lands \o bf.artifacts \o bf.enchantments
        \o bf.planeswalkers \o bf.other

\* the card is in no zone yet
InLibrary(card) ==
    \A p \in Players : ~In(card, hand[p]) /\ ~In(card, get_all_cards(battlefield[p]))

\* GameState._process_draw_card, reached from process_event: the card joins
\* the hand, whether or not the state holds it already, and the event counts
\* as processed whether or not the hand took the card
_process_draw_card(p, card) ==
    /\ hand' = [hand EXCEPT ![p] = HandAddCard(@, card)]
    /\ last' = Call("process_event", p, TRUE)
    /\ UNCHANGED <<gameVars, prioVars, manaVars, flagVars, battlefield,
                   cacheVars, histVars>>

\* GameState._process_play_card, reached from process_event: the card leaves
\* the hand and joins the battlefield; then the land test names CardType,
\* a NameError where the module does not bind it, which process_event
\* catches to return False
_process_play_card(p, card) ==
    IF In(card, hand[p])
    THEN /\ hand' = [hand EXCEPT ![p] = RemoveCard(@, card)]
         /\ battlefield' = [battlefield EXCEPT ![p] = BattlefieldAddCard(@, card)]
         /\ has_played_land_this_turn' =
                IF "CardType" \in GameStateNames /\ In(CardType.LAND, Cards[card].card_types)
                THEN [has_played_land_this_turn EXCEPT ![p] = TRUE]
                ELSE has_played_land_this_turn
         /\ land_play_applied' =
                IF In(CardType.LAND, Cards[card].card_types)
                THEN [land_play_applied EXCEPT ![p] = TRUE]
                ELSE land_play_applied
         /\ last' = Call("process_event", p, "CardType" \in GameStateNames)
         /\ UNCHANGED <<gameVars, prioVars, manaVars, has_attacked_this_turn,
                        has_used_ability_this_turn, cacheVars>>
    ELSE /\ last' = Call("process_event", p, TRUE)
         /\ UNCHANGED <<gameVars, prioVars, manaVars, flagVars, zoneVars,
                        cacheVars, histVars>>

----------------------------------------------------------------------------
(* The mana system at work on one player's state *)

\* the player whose costs are paid, and the colors of mana added to the pool
ManaPlayers == {SelfId}

ManaColors == {"white", "blue", "colorless"}

\* the energy counters are an input: nothing in the repository adds any
EnergyCounters == {0, 1}

\* the permanents of the player whose costs are paid: one Plains
ManaBattlefield == [Battlefield EXCEPT !.lands = <<4>>]

InitMana ==
    /\ NewGame
    /\ battlefield = [p \in Players |->
                          IF p \in ManaPlayers THEN ManaBattlefield ELSE Battlefield]
    /\ \E n \in EnergyCounters :
           energy_counters = [p \in Players |-> IF p \in ManaPlayers THEN n ELSE 0]

\* GameState._process_life_change, reached from process_event
_process_life_change(p, new_life) ==
    /\ life_total' = [life_total EXCEPT ![p] = new_life]
    /\ last' = Call("process_event", p, TRUE)
    /\ UNCHANGED <<gameVars, prioVars, mana_pool, energy_counters, flagVars,
                   zoneVars, cacheVars, histVars>>

\* word in name.lower(), for the words the mana system looks for
lower_contains(name, word) ==
    \/ name = "Plains" /\ word = "plains"
    \/ name = "Mana Vault" /\ word = "mana"

\* ManaSystem._land_can_produce_mana
_land_can_produce_mana(land, color) ==
    LET name == Cards[land].name
    IN IF color = "white"
       THEN lower_contains(name, "plains") \/ lower_contains(name, "white")
       ELSE IF color = "blue"
       THEN lower_contains(name, "island") \/ lower_contains(name, "blue")
       ELSE IF color = "black"
       THEN lower_contains(name, "swamp") \/ lower_contains(name, "black")
       ELSE IF color = "red"
       THEN lower_contains(name, "mountain") \/ lower_contains(name, "red")
       ELSE IF color = "green"
       THEN lower_contains(name, "forest") \/ lower_contains(name, "green")
       ELSE IF color = "colorless" THEN TRUE
       ELSE FALSE

\* ManaSystem._artifact_can_produce_mana
_artifact_can_produce_mana(artifact, color) ==
    lower_contains(Cards[artifact].name, "mana")

\* ManaSystem.can_generate_mana, for the player of id p
can_generate_mana(p, color) ==
    \/ \E i \in 1..Len(battlefield[p].lands) :
           _land_can_produce_mana(battlefield[p].lands[i], color)
    \/ \E i \in 1..Len(battlefield[p].artifacts) :
           _artifact_can_produce_mana(battlefield[p].artifacts[i], color)

\* the loop of ManaSystem.generate_mana: amount times one mana of the color,
\* False at a color that has no counter
RECURSIVE AddEach(_, _, _)
AddEach(pool, color, amount) ==
    IF amount <= 0 THEN [ret |-> TRUE, pool |-> pool]
    ELSE IF color \in ColorSet
    THEN AddEach([pool EXCEPT ![color] = @ + 1], color, amount - 1)
    ELSE [ret |-> FALSE, pool |-> pool]

\* generate_mana without the test of can_generate_mana
generate_mana_unchecked(p, color, amount) == AddEach(mana_pool[p], color, amount)

\* ManaSystem.generate_mana, for the player of id p: the value returned and
\* the pool the call leaves
generate_mana(p, color, amount) ==
    IF ~can_generate_mana(p, color) THEN [ret |-> FALSE, pool |-> mana_pool[p]]
    ELSE AddEach(mana_pool[p], color, amount)

\* a call of ManaSystem.generate_mana
GenerateMana(p, color, amount) ==
    LET generated == generate_mana(p, color, amount)
    IN /\ total_mana(generated.pool) <= MaxPoolTotal
       /\ mana_pool' = [mana_pool EXCEPT ![p] = generated.pool]
       /\ last' = Call("generate_mana", p, generated.ret)
       /\ UNCHANGED <<gameVars, prioVars, life_total, energy_counters, flagVars,
                      zoneVars, cacheVars, histVars>>

\* a can_pay_cost that finds out by paying
CanPayCostByPaying(p, cost_string) ==
    LET paid == pay_cost(cost_string, PlayerOf(p))
    IN /\ mana_pool' = [mana_pool EXCEPT ![p] = paid.player.mana_pool]
       /\ life_total' = [life_total EXCEPT ![p] = paid.player.life_total]
       /\ energy_counters' = [energy_counters EXCEPT ![p] = paid.player.energy_counters]
       /\ last' = Call("can_pay_cost", p, paid.ret)
       /\ UNCHANGED <<gameVars, prioVars, flagVars, zoneVars, cacheVars, histVars>>

\* a call of ManaSystem.can_pay_cost
CanPayCost(p, cost_string) ==
    /\ last' = Call("can_pay_cost", p, can_pay_cost(cost_string, PlayerOf(p)))
    /\ UNCHANGED <<gameVars, prioVars, manaVars, flagVars, zoneVars, cacheVars, histVars>>

\* a call of ManaSystem.pay_cost
PayCost(p, cost_string) ==
    LET paid == pay_cost(cost_string, PlayerOf(p))
    IN /\ mana_pool' = [mana_pool EXCEPT ![p] = paid.player.mana_pool]
       /\ life_total' = [life_total EXCEPT ![p] = paid.player.life_total]
       /\ energy_counters' = [energy_counters EXCEPT ![p] = paid.player.energy_counters]
       /\ last' = Call("pay_cost", p, paid.ret)
       /\ UNCHANGED <<gameVars, prioVars, flagVars, zoneVars, cacheVars, histVars>>

\* the amounts of mana asked for in one call
Amounts == 1..MaxPoolTotal

NextMana ==
    \/ \E p \in ManaPlayers, color \in ManaColors : add_mana(p, color)
    \/ \E p \in ManaPlayers, color \in ManaColors, amount \in Amounts :
           GenerateMana(p, color, amount)
    \/ \E p \in ManaPlayers, new_life \in 0..StartingLife : _process_life_change(p, new_life)
    \/ \E p \in ManaPlayers, cost_string \in Costs : CanPayCost(p, cost_string)
    \/ \E p \in ManaPlayers, cost_string \in Costs : PayCost(p, cost_string)

SpecMana == InitMana /\ [][NextMana]_vars

\* mana generation alone, on the permanents a player may control: none, a
\* land that names no color, a Plains, a mana artifact
GenBattlefields ==
    { Battlefield,
      [Battlefield EXCEPT !.lands = <<1>>],
      [Battlefield EXCEPT !.lands = <<1, 4>>],
      [Battlefield EXCEPT !.artifacts = <<5>>] }

InitGen ==
    /\ NewGame
    /\ battlefield \in [Players -> GenBattlefields]
    /\ energy_counters = [p \in Players |-> 0]

NextGen ==
    \E p \in Players, color \in ColorSet, amount \in Amounts :
        GenerateMana(p, color, amount)

SpecGen == InitGen /\ [][NextGen]_vars

----------------------------------------------------------------------------
(* rules/action_types.py and rules/legality_engine.py: LegalityEngine *)

\* the ActionType enumeration, the members the engine builds
ActionType ==
    [PLAY_LAND |-> "play_land", CAST_SPELL |-> "cast_spell",
     ACTIVATE_ABILITY |-> "activate_ability",
     DECLARE_ATTACKERS |-> "declare_attackers", DECLARE_BLOCKERS |-> "declare_blocks",
     PASS_PRIORITY |-> "pass_priority", CONCEDE |-> "concede", SCRY |-> "scry",
     DRAW_CARD |-> "draw_card", ASSIGN_DAMAGE |-> "assign_damage"]

\* the ActionTiming enumeration
ActionTiming ==
    [ANY_TIME |-> "any_time", MAIN_PHASE |-> "main_phase",
     COMBAT_PHASE |-> "combat_phase", END_STEP |-> "end_step", UPKEEP |-> "upkeep",
     DRAW_STEP |-> "draw_step", DECLARE_ATTACKERS |-> "declare_attackers",
     DECLARE_BLOCKERS |-> "declare_blockers", COMBAT_DAMAGE |-> "combat_damage",
     END_COMBAT |-> "end_combat"]

\* BaseAction and its subclasses: the type, the player, the timing the
\* subclass fixes, the cards it names (card, spell, source or attackers),
\* the mana cost of a CastSpellAction, and legal, False until set_legal
BaseAction(action_type, player_id, timing, cards, mana_cost) ==
    [action_type |-> action_type, player_id |-> player_id, timing |-> timing,
     cards |-> cards, mana_cost |-> mana_cost, legal |-> FALSE]

\* PlayerState.can_play_land
can_play_land(p) == ~has_played_land_this_turn[p]

\* PlayerState.can_attack
can_attack(p) == ~has_attacked_this_turn[p]

\* PlayerState.can_use_ability
can_use_ability(p, ability_name) == ability_name \notin has_used_ability_this_turn[p]

\* PlayerState.is_alive
is_alive(p) == life_total[p] > 0

\* _get_land_type over a card that carries its type line
_get_land_type_of_type_line(land) ==
    IF In("Basic", type_line(Cards[land].name)) THEN "basic" ELSE "non-basic"

\* LegalityEngine._get_land_type: reads land.type_line, an AttributeError
\* where CardInfo has no such field
_get_land_type(land) ==
    IF "type_line" \notin CardInfoFields THEN "AttributeError"
    ELSE IF In("Basic", type_line(Cards[land].name)) THEN "basic"
    ELSE "non-basic"

\* LegalityEngine._can_pay_mana_cost: the characters of the cost string
\* without its braces, against the pool's total
RECURSIVE CostLength(_)
CostLength(mana_cost) ==
    IF mana_cost = <<>> THEN 0
    ELSE Len(Head(mana_cost)) + CostLength(Tail(mana_cost))

EngineCanPayManaCost(mana_cost, p) ==
    IF mana_cost = <<>> THEN TRUE
    ELSE total_mana(mana_pool[p]) >= CostLength(mana_cost)

\* LegalityEngine._can_cast_spell
_can_cast_spell(spell, p) ==
    IF In(CardType.LAND, Cards[spell].card_types) THEN FALSE
    ELSE EngineCanPayManaCost(Cards[spell].mana_cost, p)

\* LegalityEngine._can_activate_ability
_can_activate_ability(card, p) ==
    IF ~can_use_ability(p, "general") THEN FALSE
    ELSE Cards[card].abilities # <<>>

\* the ActivateAbilityAction of each ability of each card that can activate
RECURSIVE AbilityActions(_, _)
AbilityActions(cards, p) ==
    IF cards = <<>> THEN <<>>
    ELSE (IF _can_activate_ability(Head(cards), p)
          THEN [k \in 1..Len(Cards[Head(cards)].abilities) |->
                   BaseAction(ActionType.ACTIVATE_ABILITY, p, ActionTiming.ANY_TIME,
                              <<Head(cards)>>, <<>>)]
          ELSE <<>>) \o AbilityActions(Tail(cards), p)

\* LegalityEngine._generate_main_phase_actions: the actions, or raised when
\* building one raises
_generate_main_phase_actions(p, is_active_player) ==
    LET IsLand(c) == In(CardType.LAND, Cards[c].card_types)
        Castable(c) == _can_cast_spell(c, p)
        lands == IF is_active_player /\ can_play_land(p)
                 THEN SelectSeq(hand[p], IsLand) ELSE <<>>
        spells == SelectSeq(hand[p], Castable)
    IN [raised |-> \E k \in 1..Len(lands) : _get_land_type(lands[k]) = "AttributeError",
        actions |->
            [k \in 1..Len(lands) |->
                BaseAction(ActionType.PLAY_LAND, p, ActionTiming.MAIN_PHASE,
                           <<lands[k]>>, <<>>)]
            \o [k \in 1..Len(spells) |->
                BaseAction(ActionType.CAST_SPELL, p, ActionTiming.ANY_TIME,
                           <<spells[k]>>, Cards[spells[k]].mana_cost)]
            \o AbilityActions(get_all_cards(battlefield[p]), p)]

\* LegalityEngine._generate_combat_phase_actions
_generate_combat_phase_actions(p, is_active_player) ==
    [raised |-> FALSE,
     actions |->
        IF is_active_player /\ can_attack(p) /\ battlefield[p].creatures # <<>>
        THEN <<BaseAction(ActionType.DECLARE_ATTACKERS, p, ActionTiming.DECLARE_ATTACKERS,
                          battlefield[p].creatures, <<>>)>>
        ELSE <<>>]

\* LegalityEngine._generate_attack_actions
_generate_attack_actions(p, is_active_player) ==
    [raised |-> FALSE,
     actions |->
        IF is_active_player /\ can_attack(p) /\ battlefield[p].creatures # <<>>
        THEN <<BaseAction(ActionType.DECLARE_ATTACKERS, p, ActionTiming.DECLARE_ATTACKERS,
                          battlefield[p].creatures, <<>>)>>
        ELSE <<>>]

\* LegalityEngine._generate_block_actions
_generate_block_actions(p, is_active_player) ==
    [raised |-> FALSE,
     actions |->
        IF ~is_active_player /\ battlefield[p].creatures # <<>>
        THEN <<BaseAction(ActionType.DECLARE_BLOCKERS, p, ActionTiming.DECLARE_BLOCKERS,
                          <<>>, <<>>)>>
        ELSE <<>>]

\* LegalityEngine._generate_damage_actions
_generate_damage_actions(p, is_active_player) ==
    LET Strikes(c) == Cards[c].power > 0
        sources == SelectSeq(battlefield[p].creatures, Strikes)
    IN [raised |-> FALSE,
        actions |->
            [k \in 1..Len(sources) |->
                BaseAction(ActionType.ASSIGN_DAMAGE, p, ActionTiming.COMBAT_DAMAGE,
                           <<sources[k]>>, <<>>)]]

\* LegalityEngine._can_draw_card
_can_draw_card(p) == TRUE

\* LegalityEngine._can_scry
_can_scry(p) == FALSE

\* LegalityEngine._generate_always_available_actions
_generate_always_available_actions(p) ==
    <<BaseAction(ActionType.PASS_PRIORITY, p, ActionTiming.ANY_TIME, <<>>, <<>>),
      BaseAction(ActionType.CONCEDE, p, ActionTiming.ANY_TIME, <<>>, <<>>)>>
    \o (IF _can_draw_card(p)
        THEN <<BaseAction(ActionType.DRAW_CARD, p, ActionTiming.ANY_TIME, <<>>, <<>>)>>
        ELSE <<>>)
    \o (IF _can_scry(p)
        THEN <<BaseAction(ActionType.SCRY, p, ActionTiming.ANY_TIME, <<>>, <<>>)>>
        ELSE <<>>)

\* LegalityEngine._validate_basic_requirements
_validate_basic_requirements(action) ==
    IF status # "active" THEN FALSE
    ELSE IF action.player_id \notin Players THEN FALSE
    ELSE IF ~is_alive(action.player_id) THEN FALSE
    ELSE TRUE

\* LegalityEngine._validate_timing: "raise" where the combat branch names
\* a member Phase does not have
_validate_timing(action) ==
    IF action.timing = ActionTiming.MAIN_PHASE
        THEN IF current_phase \notin {Phase.FIRST_MAIN, Phase.SECOND_MAIN}
             THEN "False" ELSE "True"
    ELSE IF action.timing = ActionTiming.COMBAT_PHASE
        THEN IF "END_COMBAT" \notin DOMAIN Phase THEN "raise"
             ELSE IF current_phase \notin
                         {Phase.COMBAT_BEGIN, Phase.DECLARE_ATTACKERS,
                          Phase.DECLARE_BLOCKERS, Phase.COMBAT_DAMAGE}
                 THEN "False" ELSE "True"
    ELSE IF action.timing = ActionTiming.DECLARE_ATTACKERS
        THEN IF current_phase # Phase.DECLARE_ATTACKERS THEN "False" ELSE "True"
    ELSE IF action.timing = ActionTiming.DECLARE_BLOCKERS
        THEN IF current_phase # Phase.DECLARE_BLOCKERS THEN "False" ELSE "True"
    ELSE IF action.timing = ActionTiming.COMBAT_DAMAGE
        THEN IF current_phase # Phase.COMBAT_DAMAGE THEN "False" ELSE "True"
    ELSE "True"

\* LegalityEngine._validate_play_land
_validate_play_land(action) ==
    IF ~can_play_land(action.player_id) THEN FALSE
    ELSE IF ~In(action.cards[1], hand[action.player_id]) THEN FALSE
    ELSE IF ~In(CardType.LAND, Cards[action.cards[1]].card_types) THEN FALSE
    ELSE TRUE

\* LegalityEngine._validate_cast_spell
_validate_cast_spell(action) ==
    IF ~In(action.cards[1], hand[action.player_id]) THEN FALSE
    ELSE IF ~EngineCanPayManaCost(Cards[action.cards[1]].mana_cost, action.player_id)
        THEN FALSE
    ELSE TRUE

\* LegalityEngine._validate_activate_ability
_validate_activate_ability(action) ==
    IF ~In(action.cards[1], get_all_cards(battlefield[action.player_id])) THEN FALSE
    ELSE IF ~can_use_ability(action.player_id, "general") THEN FALSE
    ELSE TRUE

\* _validate_declare_attackers without the test of whose turn it is
_validate_declare_attackers_any_turn(action) ==
    IF ~can_attack(action.player_id) THEN FALSE
    ELSE \A k \in 1..Len(action.cards) :
             In(action.cards[k], get_all_cards(battlefield[action.player_id]))

\* LegalityEngine._validate_declare_attackers
_validate_declare_attackers(action) ==
    IF active_player # action.player_id THEN FALSE
    ELSE IF ~can_attack(action.player_id) THEN FALSE
    ELSE \A k \in 1..Len(action.cards) :
             In(action.cards[k], get_all_cards(battlefield[action.player_id]))

\* LegalityEngine._validate_declare_blockers: action.cards are the blocker
\* ids of action.blocks
_validate_declare_blockers(action) ==
    IF active_player = action.player_id THEN FALSE
    ELSE \A k \in 1..Len(action.cards) :
             In(action.cards[k], get_all_cards(battlefield[action.player_id]))

\* LegalityEngine._validate_action_type
_validate_action_type(action) ==
    IF action.action_type = ActionType.PLAY_LAND THEN _validate_play_land(action)
    ELSE IF action.action_type = ActionType.CAST_SPELL THEN _validate_cast_spell(action)
    ELSE IF action.action_type = ActionType.ACTIVATE_ABILITY
        THEN _validate_activate_ability(action)
    ELSE IF action.action_type = ActionType.DECLARE_ATTACKERS
        THEN _validate_declare_attackers(action)
    ELSE IF action.action_type = ActionType.DECLARE_BLOCKERS
        THEN _validate_declare_blockers(action)
    ELSE TRUE

\* LegalityEngine._validate_resources
_validate_resources(action) ==
    IF action.mana_cost # <<>> /\ ~EngineCanPayManaCost(action.mana_cost, action.player_id)
    THEN FALSE ELSE TRUE

\* LegalityEngine._validate_targets: no action the engine builds has targets
_validate_targets(action) == TRUE

\* LegalityEngine.is_action_legal: an exception makes it False
is_action_legal(action) ==
    IF ~_validate_basic_requirements(action) THEN FALSE
    ELSE IF _validate_timing(action) # "True" THEN FALSE
    ELSE IF ~_validate_action_type(action) THEN FALSE
    ELSE IF ~_validate_resources(action) THEN FALSE
    ELSE IF ~_validate_targets(action) THEN FALSE
    ELSE TRUE

\* a call of LegalityEngine.is_action_legal: the checks read the state, and
\* write the legal and reason fields of the action alone
IsActionLegal(action) ==
    /\ last' = Call("is_action_legal", action.player_id, is_action_legal(action))
    /\ UNCHANGED <<gameVars, prioVars, manaVars, flagVars, zoneVars, cacheVars, histVars>>

\* LegalityEngine._generate_legal_actions: an exception makes it the empty list
_generate_legal_actions(player_id) ==
    IF player_id \notin Players THEN <<>>
    ELSE
    LET is_active_player == (active_player = player_id)
        phase_actions ==
            IF current_phase = Phase.FIRST_MAIN \/ current_phase = Phase.SECOND_MAIN
                THEN _generate_main_phase_actions(player_id, is_active_player)
            ELSE IF current_phase = Phase.COMBAT_BEGIN
                THEN _generate_combat_phase_actions(player_id, is_active_player)
            ELSE IF current_phase = Phase.DECLARE_ATTACKERS
                THEN _generate_attack_actions(player_id, is_active_player)
            ELSE IF current_phase = Phase.DECLARE_BLOCKERS
                THEN _generate_block_actions(player_id, is_active_player)
            ELSE IF current_phase = Phase.COMBAT_DAMAGE
                THEN _generate_damage_actions(player_id, is_active_player)
            ELSE [raised |-> FALSE, actions |-> <<>>]
        legal_actions ==
            phase_actions.actions \o _generate_always_available_actions(player_id)
    IN IF phase_actions.raised THEN <<>>
       ELSE SelectSeq(legal_actions, is_action_legal)

\* LegalityEngine.cache_duration, one second
cache_duration == 1 * TicksPerSecond

\* LegalityEngine._is_cache_valid
_is_cache_valid ==
    IF cache_age = NoAge THEN FALSE
    ELSE cache_age < cache_duration

\* LegalityEngine.get_legal_actions: what it returns is what the cache
\* holds for the player when it returns
get_legal_actions(player_id, force_refresh) ==
    /\ IF ~force_refresh /\ _is_cache_valid /\ legal_actions_cache[player_id] # <<>>
       THEN UNCHANGED cacheVars
       ELSE /\ legal_actions_cache' =
                   [legal_actions_cache EXCEPT ![player_id] =
                        _generate_legal_actions(player_id)]
            /\ cache_age' = 0
            /\ generated_age' = [generated_age EXCEPT ![player_id] = 0]
    /\ last' = Call("get_legal_actions", player_id, TRUE)
    /\ UNCHANGED <<gameVars, prioVars, manaVars, flagVars, zoneVars, histVars>>

\* an age after some ticks more: ages are not counted past cache_duration,
\* beyond which _is_cache_valid tells them no more apart
Older(age, ticks) ==
    IF age = NoAge THEN NoAge
    ELSE IF age + ticks > cache_duration THEN cache_duration
    ELSE age + ticks

\* the clock moves on between two calls
TimePasses(ticks) ==
    /\ cache_age' = Older(cache_age, ticks)
    /\ generated_age' = [p \in Players |-> Older(generated_age[p], ticks)]
    /\ last' = NoCall
    /\ UNCHANGED <<gameVars, prioVars, manaVars, flagVars, zoneVars,
                   legal_actions_cache, histVars>>

\* the cache_duration, one second, passes since the cache was written
CacheExpires ==
    /\ _is_cache_valid
    /\ TimePasses(cache_duration)

----------------------------------------------------------------------------
(* rules/legality_engine.py: the reason a rejected action carries *)

\* Action.reason of a new action: None
NoReason == "None"

\* the reason _validate_basic_requirements sets
BasicRequirementsReason(action) ==
    IF status # "active" THEN "Game is not active"
    ELSE IF action.player_id \notin Players THEN "Player not found"
    ELSE IF ~is_alive(action.player_id) THEN "Player is not alive"
    ELSE NoReason

\* the reason _validate_timing sets
TimingReason(action) ==
    IF action.timing = ActionTiming.MAIN_PHASE
        THEN "Action can only be performed during main phases"
    ELSE IF action.timing = ActionTiming.COMBAT_PHASE
        THEN "Action can only be performed during combat phase"
    ELSE IF action.timing = ActionTiming.DECLARE_ATTACKERS
        THEN "Action can only be performed during declare attackers step"
    ELSE IF action.timing = ActionTiming.DECLARE_BLOCKERS
        THEN "Action can only be performed during declare blockers step"
    ELSE "Action can only be performed during combat damage step"

\* the reason the validator of the action's type sets
ActionTypeReason(action) ==
    LET p == action.player_id
    IN IF action.action_type = ActionType.PLAY_LAND
       THEN IF ~can_play_land(p) THEN "Player has already played a land this turn"
            ELSE IF ~In(action.cards[1], hand[p]) THEN "Card is not in hand"
            ELSE "Card is not a land"
       ELSE IF action.action_type = ActionType.CAST_SPELL
       THEN IF ~In(action.cards[1], hand[p]) THEN "Spell is not in hand"
            ELSE "Player cannot pay mana cost"
       ELSE IF action.action_type = ActionType.ACTIVATE_ABILITY
       THEN IF ~In(action.cards[1], get_all_cards(battlefield[p]))
            THEN "Source is not on battlefield"
            ELSE "Player cannot use this ability this turn"
       ELSE IF action.action_type = ActionType.DECLARE_ATTACKERS
       THEN IF active_player # p THEN "Not the player's turn"
            ELSE IF ~can_attack(p) THEN "Player has already attacked this turn"
            ELSE "Attacker is not on battlefield"
       ELSE IF action.action_type = ActionType.DECLARE_BLOCKERS
       THEN IF active_player = p THEN "Cannot block on your own turn"
            ELSE "Blocker is not on battlefield"
       ELSE NoReason

\* Action.reason once LegalityEngine.is_action_legal(action) has returned,
\* for an action that came with no reason: set_illegal is never reached where
\* a validator raises, and set_legal is never called
ReasonAfterIsActionLegal(action) ==
    IF ~_validate_basic_requirements(action) THEN BasicRequirementsReason(action)
    ELSE IF _validate_timing(action) = "raise" THEN NoReason
    ELSE IF _validate_timing(action) = "False" THEN TimingReason(action)
    ELSE IF ~_validate_action_type(action) THEN ActionTypeReason(action)
    ELSE IF ~_validate_resources(action) THEN "Cannot pay mana cost"
    ELSE NoReason

----------------------------------------------------------------------------
(* rules/timing_rules.py: TimingRules.can_perform_action *)

\* TimingRules._check_basic_timing
_check_basic_timing(action, player_id) ==
    IF status # "active" THEN FALSE
    ELSE IF player_id \notin Players THEN FALSE
    ELSE IF ~is_alive(player_id) THEN FALSE
    ELSE IF /\ action.action_type \in {ActionType.PLAY_LAND, ActionType.DECLARE_ATTACKERS}
            /\ active_player # player_id
        THEN FALSE
    ELSE TRUE

\* TimingRules._check_priority
_check_priority(action, player_id) ==
    IF action.action_type \in {ActionType.CONCEDE, "mulligan"} THEN TRUE
    ELSE _player_has_priority(player_id)

\* TimingRules._check_phase_timing: the tests of _validate_timing, "raise"
\* at the same missing member of Phase
_check_phase_timing(action, player_id) == _validate_timing(action)

\* TimingRules._check_step_timing: GameState.current_step is None, nothing
\* in the repository sets it
_check_step_timing(action, player_id) == TRUE

\* TimingRules.can_perform_action: an exception makes it False
can_perform_action(action, player_id) ==
    IF ~_check_basic_timing(action, player_id) THEN FALSE
    ELSE IF ~_check_priority(action, player_id) THEN FALSE
    ELSE IF _check_phase_timing(action, player_id) # "True" THEN FALSE
    ELSE IF ~_check_step_timing(action, player_id) THEN FALSE
    ELSE TRUE

\* TimingRules._is_action_on_stack
_is_action_on_stack(action) ==
    action.action_type \in {ActionType.CAST_SPELL, ActionType.ACTIVATE_ABILITY}

\* TimingRules._can_player_respond
_can_player_respond(player_id) ==
    IF ~_player_has_priority(player_id) THEN FALSE
    ELSE IF player_id \in priority_passed THEN FALSE
    ELSE TRUE

\* a can_respond_to that does not ask whether the player can respond
can_respond_to_unasked(action, responding_player_id) ==
    IF ~_player_has_priority(responding_player_id) THEN FALSE
    ELSE IF ~_is_action_on_stack(action) THEN FALSE
    ELSE TRUE

\* TimingRules.can_respond_to
can_respond_to(action, responding_player_id) ==
    IF ~_player_has_priority(responding_player_id) THEN FALSE
    ELSE IF ~_is_action_on_stack(action) THEN FALSE
    ELSE IF ~_can_player_respond(responding_player_id) THEN FALSE
    ELSE TRUE

----------------------------------------------------------------------------
(* rules/card_restrictions.py: CardRestrictionEngine *)

\* PlayerState.max_hand_size
max_hand_size == 7

\* CardRestrictionEngine._check_basic_restrictions
_check_basic_restrictions(card, p) ==
    IF Len(hand[p]) >= max_hand_size THEN FALSE
    ELSE IF ~In(card, hand[p]) THEN FALSE
    ELSE TRUE

\* CardRestrictionEngine._is_legendary, where the card carries a type line
_is_legendary(card) == In("Legendary", type_line(Cards[card].name))

\* CardRestrictionEngine._can_play_legendary
_can_play_legendary(card, p) ==
    \A k \in 1..Len(get_all_cards(battlefield[p])) :
        LET battlefield_card == get_all_cards(battlefield[p])[k]
        IN ~(Cards[battlefield_card].name = Cards[card].name
                /\ _is_legendary(battlefield_card))

\* CardRestrictionEngine._can_play_planeswalker
_can_play_planeswalker(card, p) ==
    \A k \in 1..Len(get_all_cards(battlefield[p])) :
        LET battlefield_card == get_all_cards(battlefield[p])[k]
        IN ~(Cards[battlefield_card].name = Cards[card].name
                /\ In(CardType.PLANESWALKER, Cards[battlefield_card].card_types))

\* CardRestrictionEngine._check_card_specific_restrictions
_check_card_specific_restrictions(card, p) ==
    IF _is_legendary(card) /\ ~_can_play_legendary(card, p) THEN FALSE
    ELSE IF /\ In(CardType.PLANESWALKER, Cards[card].card_types)
            /\ ~_can_play_planeswalker(card, p)
        THEN FALSE
    ELSE IF In(CardType.LAND, Cards[card].card_types) /\ ~can_play_land(p) THEN FALSE
    ELSE TRUE

\* CardRestrictionEngine._check_zone_restrictions: the zone_type of a card
\* is the zone it is in
_check_zone_restrictions(card, p) == In(card, hand[p])

\* CardRestrictionEngine._player_has_priority
CardRestrictionEngine_player_has_priority(p) == active_player = p

\* CardRestrictionEngine._check_timing_restrictions
_check_timing_restrictions(card, p) ==
    IF active_player # p THEN FALSE
    ELSE CardRestrictionEngine_player_has_priority(p)

\* CardRestrictionEngine.can_play_card: _is_legendary reads card.type_line,
\* an AttributeError where CardInfo has no such field, caught to return False
can_play_card(card, p) ==
    IF ~_check_basic_restrictions(card, p) THEN FALSE
    ELSE IF "type_line" \notin CardInfoFields THEN FALSE
    ELSE IF ~_check_card_specific_restrictions(card, p) THEN FALSE
    ELSE IF ~_check_zone_restrictions(card, p) THEN FALSE
    ELSE IF ~_check_timing_restrictions(card, p) THEN FALSE
    ELSE TRUE

\* CardRestrictionEngine.can_activate_ability
can_activate_ability(card, ability, p) ==
    IF ~In(card, get_all_cards(battlefield[p])) THEN FALSE
    ELSE IF ~(In(ability, Cards[card].abilities) /\ can_use_ability(p, ability)) THEN FALSE
    ELSE CardRestrictionEngine_player_has_priority(p)

\* CardRestrictionEngine.can_attack_with: no card has summoning sickness, is
\* tapped or carries a keyword
can_attack_with(creature, p) ==
    IF ~In(creature, get_all_cards(battlefield[p])) THEN FALSE
    ELSE IF active_player # p THEN FALSE
    ELSE can_attack(p)

----------------------------------------------------------------------------
(* rules/legality_integration.py: LegalityIntegration.is_action_legal *)

\* LegalityIntegration._check_card_restrictions: by the attribute the action
\* has (card, source, attackers, blocks).  An AssignDamageAction has a source
\* and no ability: AttributeError.  A blocker on the battlefield is looked up
\* against its attacker on get_active_player().battlefield, an AttributeError
\* with no active player; the attackers blocked are taken to be on the active
\* player's battlefield, and can_block_with rejects the active player's own
\* blockers.  An exception makes is_action_legal False.
_check_card_restrictions(action) ==
    LET p == action.player_id
    IN IF action.action_type = ActionType.PLAY_LAND THEN can_play_card(action.cards[1], p)
       ELSE IF action.action_type = ActionType.ACTIVATE_ABILITY
       THEN can_activate_ability(action.cards[1], "general", p)
       ELSE IF action.action_type = ActionType.ASSIGN_DAMAGE THEN FALSE
       ELSE IF action.action_type = ActionType.DECLARE_ATTACKERS
       THEN \A k \in 1..Len(action.cards) : can_attack_with(action.cards[k], p)
       ELSE IF action.action_type = ActionType.DECLARE_BLOCKERS
       THEN \A k \in 1..Len(action.cards) :
                In(action.cards[k], get_all_cards(battlefield[p]))
                    => (active_player # NoPlayer /\ active_player # p)
       ELSE TRUE

\* LegalityIntegration._check_mana_requirements
_check_mana_requirements(action) ==
    IF action.mana_cost # <<>> THEN can_pay_cost(action.mana_cost, PlayerOf(action.player_id))
    ELSE TRUE

\* LegalityIntegration.is_action_legal: an exception makes it False
LegalityIntegration_is_action_legal(action) ==
    IF ~is_action_legal(action) THEN FALSE
    ELSE IF ~can_perform_action(action, action.player_id) THEN FALSE
    ELSE IF ~_check_card_restrictions(action) THEN FALSE
    ELSE IF ~_check_mana_requirements(action) THEN FALSE
    ELSE TRUE

\* the cards dealt: the two legendary lands and the creature
PlayCards == {1, 2, 3}

\* the lists of attackers or blockers a caller may declare: up to two of the
\* cards dealt
Declared ==
    {<<>>} \cup {<<card>> : card \in PlayCards}
        \cup {pair \in PlayCards \X PlayCards : pair[1] > pair[2]}

\* the declarations of attackers and of blockers a caller may ask about
DeclarationsOf(p) ==
    {BaseAction(ActionType.DECLARE_ATTACKERS, p, ActionTiming.DECLARE_ATTACKERS,
                cards, <<>>) : cards \in Declared}
    \cup {BaseAction(ActionType.DECLARE_BLOCKERS, p, ActionTiming.DECLARE_BLOCKERS,
                     cards, <<>>) : cards \in Declared}

\* the actions a caller may ask about: of each type, on each card dealt
ActionsOf(p) ==
    {BaseAction(ActionType.PLAY_LAND, p, ActionTiming.MAIN_PHASE, <<card>>, <<>>) :
         card \in PlayCards}
    \cup {BaseAction(ActionType.CAST_SPELL, p, ActionTiming.ANY_TIME, <<card>>,
                     Cards[card].mana_cost) : card \in PlayCards}
    \cup DeclarationsOf(p)
    \cup {BaseAction(ActionType.PASS_PRIORITY, p, ActionTiming.ANY_TIME, <<>>, <<>>),
          BaseAction(ActionType.CONCEDE, p, ActionTiming.ANY_TIME, <<>>, <<>>)}

----------------------------------------------------------------------------
(* the engine at work on the events of one player *)

\* the players to whom cards are dealt and whose actions are asked for; the
\* draw events here report each instance once, as it leaves the library
PlayPlayers == {SelfId}

\* the phases the phase events announce
PlayPhases ==
    {Phase.FIRST_MAIN, Phase.COMBAT_BEGIN, Phase.DECLARE_ATTACKERS,
     Phase.DECLARE_BLOCKERS, Phase.COMBAT_DAMAGE, Phase.CLEANUP}

\* the life totals the life events report, and the mana the lands give
PlayLives == {0, StartingLife}

PlayColors == {"green"}

NextPlay ==
    \/ \E p \in Players : set_active_player(p)
    \/ \E new_phase \in PlayPhases : _process_phase_change(new_phase)
    \/ next_turn
    \/ \E new_turn \in 0..MaxTurn, p \in Players : _process_turn_change(new_turn, p)
    \/ \E p \in PlayPlayers, new_life \in PlayLives : _process_life_change(p, new_life)
    \/ \E p \in PlayPlayers, color \in PlayColors : add_mana(p, color)
    \/ \E p \in PlayPlayers, card \in PlayCards :
           InLibrary(card) /\ _process_draw_card(p, card)
    \/ \E p \in PlayPlayers, card \in PlayCards : _process_play_card(p, card)
    \/ \E p \in PlayPlayers, force_refresh \in BOOLEAN :
           get_legal_actions(p, force_refresh)
    \/ CacheExpires

SpecPlay == Init /\ [][NextPlay]_vars

----------------------------------------------------------------------------
(* the turn left to the passes alone: no event arrives, both players pass *)

\* a game in progress as the events and calls above leave it: any turn and
\* phase, either player active, priority with nobody yet or left with a
\* player by an earlier round of passes, the pass set empty
InitPass ==
    /\ status = "active"
    /\ turn_number \in 0..MaxTurn
    /\ current_phase \in Phases
    /\ active_player \in Players
    /\ priority_player \in {NoPlayer} \cup Players
    /\ priority_passed = {}
    /\ life_total = [p \in Players |-> StartingLife]
    /\ mana_pool = [p \in Players |-> ManaPool]
    /\ energy_counters = [p \in Players |-> 0]
    /\ has_played_land_this_turn = [p \in Players |-> FALSE]
    /\ has_attacked_this_turn = [p \in Players |-> FALSE]
    /\ has_used_ability_this_turn \in [Players -> SUBSET Abilities]
    /\ hand = [p \in Players |-> <<>>]
    /\ battlefield = [p \in Players |-> Battlefield]
    /\ legal_actions_cache = [p \in Players |-> <<>>]
    /\ cache_age = NoAge
    /\ generated_age = [p \in Players |-> NoAge]
    /\ land_play_applied = [p \in Players |-> FALSE]
    /\ last = NoCall

NextPass == \E p \in Players : pass_priority(p)

\* both players keep passing priority
SpecPass ==
    /\ InitPass
    /\ [][NextPass]_vars
    /\ WF_vars(pass_priority(SelfId))
    /\ WF_vars(pass_priority(OpponentId))

----------------------------------------------------------------------------
(* the hand of one player under the draw and play events of the log *)

\* the most permanents a battlefield holds here
MaxPermanents == 2

\* the player whose cards the events report
HandPlayers == {SelfId}

\* the instances the events name: a legendary land and a creature
HandCards == {1, 3}

\* the log parser reports the first card of the hand zone as drawn at every
\* game-state message, so a draw event may name an instance drawn before
NextHand ==
    \/ \E p \in Players : set_active_player(p)
    \/ \E p \in HandPlayers, card \in HandCards : _process_draw_card(p, card)
    \/ \E p \in HandPlayers, card \in HandCards :
           /\ Len(get_all_cards(battlefield[p])) < MaxPermanents
           /\ _process_play_card(p, card)

SpecHand == Init /\ [][NextHand]_vars

----------------------------------------------------------------------------
(* the cache of legal actions under the calls of both players, as time passes *)

\* the phases the phase events announce while the lists are asked for
CachePhases == {Phase.FIRST_MAIN, Phase.DECLARE_ATTACKERS}

\* a tick of the clock, once the cache was written
Tick == cache_age # NoAge /\ TimePasses(1)

NextCache ==
    \/ \E p \in Players : set_active_player(p)
    \/ \E new_phase \in CachePhases : _process_phase_change(new_phase)
    \/ \E p \in Players, force_refresh \in BOOLEAN : get_legal_actions(p, force_refresh)
    \/ Tick

SpecCache == Init /\ [][NextCache]_vars

----------------------------------------------------------------------------
(* the queries of one player among the events that change the state *)

\* the cards dealt: the creature and the basic land
QueryCards == {3, 4}

\* the cost asked about: that of the creature
QueryCosts == {Cards[3].mana_cost}

\* the colors of mana added: that of the creature's colored pip, and another
QueryColors == {"green", "white"}

\* the actions asked about: to play or cast each card, to pass
QueryActions(p) ==
    {BaseAction(ActionType.PLAY_LAND, p, ActionTiming.MAIN_PHASE, <<card>>, <<>>) :
         card \in QueryCards}
    \cup {BaseAction(ActionType.CAST_SPELL, p, ActionTiming.ANY_TIME, <<card>>,
                     Cards[card].mana_cost) : card \in QueryCards}
    \cup {BaseAction(ActionType.PASS_PRIORITY, p, ActionTiming.ANY_TIME, <<>>, <<>>)}

NextQuery ==
    \/ \E p \in Players : set_active_player(p)
    \/ _process_phase_change(Phase.FIRST_MAIN)
    \/ \E p \in PlayPlayers, color \in QueryColors : add_mana(p, color)
    \/ \E p \in PlayPlayers, card \in QueryCards :
           InLibrary(card) /\ _process_draw_card(p, card)
    \/ \E p \in PlayPlayers, card \in QueryCards : _process_play_card(p, card)
    \/ \E p \in PlayPlayers, cost_string \in QueryCosts : CanPayCost(p, cost_string)
    \/ \E p \in PlayPlayers : \E action \in QueryActions(p) : IsActionLegal(action)
    \/ \E p \in PlayPlayers, force_refresh \in BOOLEAN :
           get_legal_actions(p, force_refresh)

SpecQuery == Init /\ [][NextQuery]_vars

----------------------------------------------------------------------------
(* a match started on the state of the match before *)

\* a call of GameState.initialize_game(SelfId, OpponentId, StartingLife) on
\* a state in use: the status, the turn number and two new PlayerStates are
\* assigned; the phase, the active player and the priority holder are not,
\* and the TimingRules and the LegalityEngine built on the state keep their
\* pass set and their cache
InitializeGame ==
    /\ status' = "active"
    /\ turn_number' = 0
    /\ life_total' = [p \in Players |-> StartingLife]
    /\ mana_pool' = [p \in Players |-> ManaPool]
    /\ energy_counters' = [p \in Players |-> 0]
    /\ has_played_land_this_turn' = [p \in Players |-> FALSE]
    /\ has_attacked_this_turn' = [p \in Players |-> FALSE]
    /\ has_used_ability_this_turn' = [p \in Players |-> {}]
    /\ hand' = [p \in Players |-> <<>>]
    /\ battlefield' = [p \in Players |-> Battlefield]
    /\ land_play_applied' = [p \in Players |-> FALSE]
    /\ last' = Call("initialize_game", NoPlayer, TRUE)
    /\ UNCHANGED <<current_phase, active_player, prioVars, cacheVars>>

NextMatch ==
    \/ Next
    \/ InitializeGame

SpecMatch == Init /\ [][NextMatch]_vars

----------------------------------------------------------------------------
(* the legal actions of a player who holds and controls planeswalkers *)

\* the cards dealt: the two copies of the planeswalker
WalkerCards == {6, 7}

\* the colors of mana added: both of the planeswalker's cost
WalkerColors == {"red", "green"}

NextWalker ==
    \/ \E p \in Players : set_active_player(p)
    \/ _process_phase_change(Phase.FIRST_MAIN)
    \/ \E p \in PlayPlayers, color \in WalkerColors : add_mana(p, color)
    \/ \E p \in PlayPlayers, card \in WalkerCards :
           InLibrary(card) /\ _process_draw_card(p, card)
    \/ \E p \in PlayPlayers, card \in WalkerCards : _process_play_card(p, card)
    \/ \E p \in PlayPlayers, force_refresh \in BOOLEAN :
           get_legal_actions(p, force_refresh)

SpecWalker == Init /\ [][NextWalker]_vars

----------------------------------------------------------------------------
(* Claims about paying costs *)

\* C1: pay_cost is all-or-nothing: a call that returns False leaves the
\* player's mana pool, life total and energy counters exactly as they were,
\* whatever mix of basic, hybrid, Phyrexian, energy and life symbols the
\* cost holds.
C1_PayCostAllOrNothing ==
    [][\A p \in ManaPlayers, cost_string \in Costs :
          (PayCost(p, cost_string) /\ ~last'.ret) => UNCHANGED manaVars]_vars

----------------------------------------------------------------------------
(* Claims about the turn structure *)

\* C2: in a two-player game, from an empty pass set, a pass by one player
\* followed by a pass by the other advances the phase by exactly one position
\* of the cycle and leaves the pass set empty; a single pass, or repeated
\* passes by the same player, never change the phase.
C2_TwoPassesAdvanceOnePhase ==
    [][\A q \in Players :
          (pass_priority(q) /\ current_phase \in Phases /\ turn_number < MaxTurn) =>
              /\ (\E p \in Players \ {q} :
                      /\ priority_passed = {p}
                      /\ last = Call("pass_priority", p, TRUE))
                    => (current_phase' = Successor(current_phase)
                        /\ priority_passed' = {})
              /\ priority_passed \subseteq {q} => current_phase' = current_phase]_vars

\* C3: the phase advance is total over the twelve-phase cycle: whenever the
\* advance runs (the pass that completes the pass set), the phase becomes the
\* successor of the phase it ran in, Cleanup leading to Untap; no phase is
\* skipped, repeated or left unchanged.
C3_AdvanceIsTotal ==
    [][\A q \in Players :
          (/\ pass_priority(q)
           /\ _all_players_passed_priority(priority_passed \cup {q})
           /\ current_phase \in Phases
           /\ turn_number < MaxTurn)
          => current_phase' = Successor(current_phase)]_vars

\* C4: the advance out of Cleanup adds exactly one to turn_number, leaves
\* has_played_land_this_turn and has_attacked_this_turn false and the set of
\* used abilities empty for both players, and makes Untap the current phase.
C4_CleanupEndsTurn ==
    [][\A q \in Players :
          (/\ pass_priority(q)
           /\ _all_players_passed_priority(priority_passed \cup {q})
           /\ current_phase = Phase["CLEANUP"]
           /\ turn_number < MaxTurn)
          => /\ turn_number' = turn_number + 1
             /\ \A p \in Players :
                    /\ ~has_played_land_this_turn'[p]
                    /\ ~has_attacked_this_turn'[p]
                    /\ has_used_ability_this_turn'[p] = {}
             /\ current_phase' = Phase["UNTAP"]]_vars

\* C5: when both players keep passing, from any phase the game reaches
\* Cleanup and then the Untap of the next turn: turn_number increases.
C5_TurnEventuallyAdvances ==
    \A n \in 0..(MaxTurn - 1) :
        (turn_number = n) ~> (current_phase = Phase["UNTAP"] /\ turn_number = n + 1)

----------------------------------------------------------------------------
(* Claims about cards in play, payment and priority *)

C7_OneLegendPerName ==
    \A p \in Players :
        LET permanents == get_all_cards(battlefield[p])
        IN \A i, j \in 1..Len(permanents) :
               (/\ i # j
                /\ Cards[permanents[i]].name = Cards[permanents[j]].name
                /\ In("Legendary", type_line(Cards[permanents[i]].name)))
               => FALSE

\* C8: pay_cost returns True exactly when can_pay_cost returns True in the
\* same state.
C8_PayAgreesWithCanPay ==
    \A p \in ManaPlayers, cost_string \in Costs :
        pay_cost(cost_string, PlayerOf(p)).ret = can_pay_cost(cost_string, PlayerOf(p))

\* C9: _player_has_priority(p) is false for every player p in the pass set,
\* the active player included.
C9_PassedPlayerHasNoPriority ==
    \A p \in priority_passed : ~_player_has_priority(p)

\* the costs of colored, colorless and generic pips only
BasicSymbols == { <<"W">>, <<"U">>, <<"G">>, <<"C">>, <<"1">>, <<"2">> }

BasicCosts == UNION { [1..n -> BasicSymbols] : n \in 0..MaxCostLen }

\* the pips of one kind in a cost, counted on the cost expression itself
PipCount(cost_string, ch) ==
    Cardinality({k \in 1..Len(cost_string) : cost_string[k] = <<ch>>})

\* the generic amount of a cost: its numerals added up
RECURSIVE GenericAmount(_)
GenericAmount(cost_string) ==
    IF cost_string = <<>> THEN 0
    ELSE (IF Head(cost_string) = <<"1">> THEN 1
          ELSE IF Head(cost_string) = <<"2">> THEN 2 ELSE 0)
         + GenericAmount(Tail(cost_string))

\* each color's pips are within the pool's counter of that color, and the
\* pool's total less all those pips covers the generic amount
BasicPayable(cost_string, pool) ==
    /\ \A color \in ColorSet :
           PipCount(cost_string, IF color = "blue" THEN "U"
                                 ELSE IF color = "white" THEN "W"
                                 ELSE IF color = "black" THEN "B"
                                 ELSE IF color = "red" THEN "R"
                                 ELSE IF color = "green" THEN "G" ELSE "C")
               <= pool[color]
    /\ total_mana(pool)
           - (PipCount(cost_string, "W") + PipCount(cost_string, "U")
              + PipCount(cost_string, "B") + PipCount(cost_string, "R")
              + PipCount(cost_string, "G") + PipCount(cost_string, "C"))
       >= GenericAmount(cost_string)

\* C10: for a cost of colored, colorless and generic pips, can_pay_cost is
\* true exactly when each color's pips are within the pool's counter of that
\* color and the pool's total less the colored and colorless pips covers the
\* generic amount; when it is false, pay_cost returns False and leaves the
\* player as it was (a pool of one white against {W}{W}).
C10_BasicCostPayability ==
    \A p \in ManaPlayers, cost_string \in BasicCosts :
        /\ can_pay_cost(cost_string, PlayerOf(p))
               = BasicPayable(cost_string, mana_pool[p])
        /\ ~BasicPayable(cost_string, mana_pool[p]) =>
               pay_cost(cost_string, PlayerOf(p)) = [ret |-> FALSE, player |-> PlayerOf(p)]

\* pay_cost has just refused a cost, on a pool of one white mana, which
\* does not cover {W}{W}
C10_Witness ==
    /\ last = Call("pay_cost", SelfId, FALSE)
    /\ mana_pool[SelfId] = [ManaPool EXCEPT !["white"] = 1]
    /\ ~can_pay_cost(<< <<"W">>, <<"W">> >>, PlayerOf(SelfId))
    /\ pay_cost(<< <<"W">>, <<"W">> >>, PlayerOf(SelfId)).player = PlayerOf(SelfId)

----------------------------------------------------------------------------
(* Claims about the mana grammar *)

\* a symbol of two parts joined by one '/'
TwoPart(symbol) == Len(split(symbol)) = 2

\* a two-part symbol with P on either side
PhyrexianTwoPart(symbol) ==
    TwoPart(symbol) /\ (split(symbol)[1] = <<"P">> \/ split(symbol)[2] = <<"P">>)

\* C11: a two-part symbol with P on either side ({W/P}) is parsed into the
\* cost's Phyrexian list and not into its hybrid list; a two-part symbol
\* without P is parsed into the hybrid list and not into the Phyrexian list.
C11_PhyrexianTwoPartIsPhyrexian ==
    [][\A p \in ManaPlayers, cost_string \in Costs :
          (CanPayCost(p, cost_string) \/ PayCost(p, cost_string)) =>
              LET cost == _parse_cost(cost_string)
              IN \A k \in 1..Len(cost_string) :
                     LET symbol == cost_string[k]
                     IN TwoPart(symbol) =>
                            IF PhyrexianTwoPart(symbol)
                            THEN In(symbol, cost.phyrexian) /\ ~In(symbol, cost.hybrid)
                            ELSE In(symbol, cost.hybrid) /\ ~In(symbol, cost.phyrexian)]_vars

\* the letters that stand for one pip each
PipLetters == { <<"W">>, <<"U">>, <<"B">>, <<"R">>, <<"G">>, <<"C">> }

\* one side of a two-part symbol: a letter, a numeral or P
IsSide(part) == part \in PipLetters \/ isdigit(part) \/ part = <<"P">>

\* the symbols of the mana grammar: a pip letter, a numeral, a two-part
\* symbol, S (snow), E (energy), L (life)
InGrammar(symbol) ==
    \/ symbol \in PipLetters
    \/ isdigit(symbol)
    \/ TwoPart(symbol) /\ IsSide(split(symbol)[1]) /\ IsSide(split(symbol)[2])
    \/ symbol \in { <<"S">>, <<"E">>, <<"L">> }

\* C12: a cost expression holding a symbol outside the grammar ({X}) is a
\* parse error: can_pay_cost and pay_cost both report failure for it.
C12_UnrecognizedSymbolFails ==
    \A p \in ManaPlayers, cost_string \in Costs :
        (\E k \in 1..Len(cost_string) : ~InGrammar(cost_string[k])) =>
            /\ ~can_pay_cost(cost_string, PlayerOf(p))
            /\ ~pay_cost(cost_string, PlayerOf(p)).ret

\* the cost expression without its snow symbols
RemoveSnow(cost_string) == SelectSeq(cost_string, LAMBDA symbol : symbol # <<"S">>)

\* C13: a snow component never makes a cost unpayable: can_pay_cost and
\* pay_cost give the same result for a cost as for the same cost with its
\* snow symbols removed.
C13_SnowNeverUnpayable ==
    \A p \in ManaPlayers, cost_string \in Costs :
        /\ can_pay_cost(cost_string, PlayerOf(p))
               = can_pay_cost(RemoveSnow(cost_string), PlayerOf(p))
        /\ pay_cost(cost_string, PlayerOf(p)).ret
               = pay_cost(RemoveSnow(cost_string), PlayerOf(p)).ret

----------------------------------------------------------------------------
(* Claims about the mana pool *)

\* C14: every counter of every player's mana pool is non-negative in every
\* state reached by generate_mana, add_mana and pay_cost calls, whether the
\* payments succeed or fail.
C14_PoolNeverNegative ==
    \A p \in Players, color \in ColorSet : mana_pool[p][color] >= 0

\* a payment has just failed after its colored pip took the last white mana:
\* the white counter is at zero, the colorless mana is still there
C14_Witness ==
    /\ last = Call("pay_cost", SelfId, FALSE)
    /\ mana_pool[SelfId] = [ManaPool EXCEPT !["colorless"] = 1]
    /\ \E prior \in {[ManaPool EXCEPT !["white"] = 1, !["colorless"] = 1]} :
           pay_cost(<< <<"W">>, <<"W", "/", "U">> >>,
                    [PlayerOf(SelfId) EXCEPT !.mana_pool = prior])
               = [ret |-> FALSE, player |-> PlayerOf(SelfId)]

\* C15: the mana pool is reset at the cleanup step: after a step that leaves
\* Cleanup for the next turn (the turn counter goes up by one while the phase
\* is Cleanup, by the passes, by next_turn or by a turn event) all six
\* counters of both players' mana pools are zero.
C15_PoolEmptyAfterCleanup ==
    [][(current_phase = Phase["CLEANUP"] /\ turn_number' = turn_number + 1)
          => \A p \in Players, color \in ColorSet : mana_pool'[p][color] = 0]_vars

----------------------------------------------------------------------------
(* Claims about the legal actions *)

\* the list holds an action of that type for the player
HasAction(actions, action_type, p) ==
    \E k \in 1..Len(actions) :
        actions[k].action_type = action_type /\ actions[k].player_id = p

\* C17: for every registered, alive player in an active match, what
\* get_legal_actions returns holds a pass-priority action and a concede
\* action, in every phase (no phase set included), for the active player and
\* for the other.
C17_PassAndConcedeAlwaysLegal ==
    \A p \in Players :
        (/\ last = Call("get_legal_actions", p, TRUE)
         /\ status = "active"
         /\ is_alive(p))
        => /\ HasAction(legal_actions_cache[p], ActionType.PASS_PRIORITY, p)
           /\ HasAction(legal_actions_cache[p], ActionType.CONCEDE, p)

\* the PLAY_LAND actions of the list that name the card
PlayLandActions(actions, card) ==
    {k \in 1..Len(actions) :
         actions[k].action_type = ActionType.PLAY_LAND /\ actions[k].cards = <<card>>}

\* C18: in FirstMain, for the active player (alive, in an active match) with
\* has_played_land_this_turn false, a freshly generated legal-action list
\* holds exactly one PLAY_LAND action per land card in the player's hand and
\* none for any other card; with has_played_land_this_turn true it holds no
\* PLAY_LAND action.
C18_OnePlayLandPerLandInHand ==
    \A p \in Players :
        (/\ current_phase = Phase.FIRST_MAIN
         /\ active_player = p
         /\ status = "active"
         /\ is_alive(p))
        => LET actions == _generate_legal_actions(p)
           IN \A card \in CardIds :
                  Cardinality(PlayLandActions(actions, card))
                      = IF /\ ~has_played_land_this_turn[p]
                           /\ In(card, hand[p])
                           /\ In(CardType.LAND, Cards[card].card_types)
                        THEN 1 ELSE 0

\* C19: whenever is_action_legal, of LegalityEngine or of LegalityIntegration,
\* returns False for a well-formed action, the action carries a reason, the
\* one of the first check that failed.
C19_RejectionCarriesReason ==
    \A p \in Players :
        \A action \in ActionsOf(p) :
            /\ ~is_action_legal(action) => ReasonAfterIsActionLegal(action) # NoReason
            /\ ~LegalityIntegration_is_action_legal(action)
                   => ReasonAfterIsActionLegal(action) # NoReason

\* every card the action declares is a permanent of the acting player
AllOnBattlefield(action) ==
    \A k \in 1..Len(action.cards) :
        In(action.cards[k], get_all_cards(battlefield[action.player_id]))

\* C20: is_action_legal, of LegalityEngine or of LegalityIntegration, never
\* reports a DECLARE_ATTACKERS action legal for a player who is not the
\* active player, nor a DECLARE_BLOCKERS action for the active player, and
\* reports either legal only if every declared attacker or blocker is on the
\* acting player's battlefield.
C20_AttackOnOwnTurnBlockOnOthers ==
    \A p \in Players :
        \A action \in DeclarationsOf(p) :
            (is_action_legal(action) \/ LegalityIntegration_is_action_legal(action))
            => /\ action.action_type = ActionType.DECLARE_ATTACKERS
                      => (active_player = p /\ AllOnBattlefield(action))
               /\ action.action_type = ActionType.DECLARE_BLOCKERS
                      => (active_player # p /\ AllOnBattlefield(action))

\* in the declare-attackers step the active player's attack with the creature
\* on the battlefield is legal, the attack with a card that is not there is
\* not; and the list the engine returned holds the declaration
C20_Witness ==
    /\ last = Call("get_legal_actions", SelfId, TRUE)
    /\ HasAction(legal_actions_cache[SelfId], ActionType.DECLARE_ATTACKERS, SelfId)
    /\ active_player = SelfId
    /\ current_phase = Phase.DECLARE_ATTACKERS
    /\ is_action_legal(BaseAction(ActionType.DECLARE_ATTACKERS, SelfId,
                                  ActionTiming.DECLARE_ATTACKERS, <<3>>, <<>>))
    /\ ~is_action_legal(BaseAction(ActionType.DECLARE_ATTACKERS, SelfId,
                                   ActionTiming.DECLARE_ATTACKERS, <<3, 1>>, <<>>))
    /\ ~is_action_legal(BaseAction(ActionType.DECLARE_BLOCKERS, SelfId,
                                   ActionTiming.DECLARE_BLOCKERS, <<3>>, <<>>))


----------------------------------------------------------------------------
(* Claims about the hand and the zones *)

C22_HandNeverExceedsLimit ==
    /\ [](\A p \in Players : Len(hand[p]) <= max_hand_size)
    /\ [][\A p \in HandPlayers, card \in HandCards :
              (_process_draw_card(p, card) /\ Len(hand[p]) >= max_hand_size)
              => hand'[p] = hand[p]]_vars

\* a draw event has been processed and the hand is full
C22_Witness ==
    /\ last = Call("process_event", SelfId, TRUE)
    /\ Len(hand[SelfId]) = max_size
    /\ \E card \in HandCards : HandAddCard(hand[SelfId], card) = hand[SelfId]

\* the number of slots of a list that hold the card
Slots(card, xs) == Cardinality({i \in 1..Len(xs) : xs[i] = card})

\* C23: whatever draw and play events are applied, no instance_id occupies
\* more than one slot of the hands and battlefields of the two players: it is
\* never twice in a hand or on a battlefield, nor in a hand and on a
\* battlefield at once.
C23_OneSlotPerInstance ==
    \A card \in CardIds :
        Slots(card, hand[SelfId]) + Slots(card, get_all_cards(battlefield[SelfId]))
            + Slots(card, hand[OpponentId])
            + Slots(card, get_all_cards(battlefield[OpponentId])) <= 1


----------------------------------------------------------------------------
(* Claims about the turn counter and the players *)

\* C24: turn_number is never below zero and no operation (a pass that
\* advances the phase, next_turn, an applied TURN_CHANGE event) lowers it.
C24_TurnNumberMonotonic ==
    /\ [](turn_number >= 0)
    /\ [][turn_number' >= turn_number]_vars

\* C25: while the match is active, active_player is one of the two
\* registered players, and priority_player is unset or one of them.
C25_ActivePlayerRegistered ==
    status = "active"
    => /\ active_player \in {SelfId, OpponentId}
       /\ priority_player \in {NoPlayer, SelfId, OpponentId}


----------------------------------------------------------------------------
(* Claims about the cache of legal actions and the responses *)

\* C26: a get_legal_actions(p) call without force_refresh that generates
\* nothing returns a list generated for p less than cache_duration earlier:
\* a list older than that is never served.
C26_StaleListNeverServed ==
    [][\A p \in Players :
           (get_legal_actions(p, FALSE) /\ UNCHANGED cacheVars)
           => (generated_age[p] # NoAge /\ generated_age[p] < cache_duration)]_vars

\* the actions a player may be asked to respond to: one of each type, by
\* either player
Pending ==
    {BaseAction(ActionType[t], p, ActionTiming.ANY_TIME, <<>>, <<>>) :
         t \in DOMAIN ActionType, p \in Players}

----------------------------------------------------------------------------
(* Claims about the restrictions on cards and the queries *)

\* a restriction applies to the card: a land after the land play of the turn,
\* a legendary card or a planeswalker whose name a legendary permanent or a
\* planeswalker of the player's battlefield bears
RestrictionApplies(card, p) ==
    \/ In(CardType.LAND, Cards[card].card_types) /\ has_played_land_this_turn[p]
    \/ \E k \in 1..Len(get_all_cards(battlefield[p])) :
           LET permanent == get_all_cards(battlefield[p])[k]
           IN /\ Cards[permanent].name = Cards[card].name
              /\ \/ /\ In("Legendary", type_line(Cards[card].name))
                    /\ In("Legendary", type_line(Cards[permanent].name))
                 \/ /\ In(CardType.PLANESWALKER, Cards[card].card_types)
                    /\ In(CardType.PLANESWALKER, Cards[permanent].card_types)

\* C28: for a card in the hand of the active player, the hand below its
\* limit, can_play_card is true when no restriction applies to the card and
\* false once one does.
C28_PlayableUnlessRestricted ==
    \A p \in Players :
        \A card \in PlayCards :
            (In(card, hand[p]) /\ Len(hand[p]) < max_hand_size /\ active_player = p)
            => (can_play_card(card, p) <=> ~RestrictionApplies(card, p))

\* C29: a call of can_pay_cost, is_action_legal or get_legal_actions leaves
\* the match and the players as they were (turn, phase, active and priority
\* player, pass set, zones, pools, life, energy, the flags of the turn); the
\* cache of legal actions is all it may write.
C29_QueriesChangeNoState ==
    [][last'.op \in {"can_pay_cost", "is_action_legal", "get_legal_actions"}
       => UNCHANGED <<gameVars, prioVars, manaVars, flagVars, zoneVars>>]_vars

\* the cost of the creature was found payable and the pool still holds the
\* mana that would pay it
C29_Witness ==
    /\ last = Call("can_pay_cost", SelfId, TRUE)
    /\ mana_pool[SelfId].green = 2
    /\ can_pay_cost(Cards[3].mana_cost, PlayerOf(SelfId))


----------------------------------------------------------------------------
(* Claims about the rotation of priority *)

\* the player after q in the order [self, opponent], wrapping around
Follower(q) == IF q = SelfId THEN OpponentId ELSE SelfId

\* who holds priority: priority_player, or the active player while none is set
Holder == IF priority_player # NoPlayer THEN priority_player ELSE active_player

\* C30: a pass_priority(p) that does not complete the pass set leaves
\* priority with the player who follows the previous holder (the active
\* player when no holder was set) in the order [self, opponent], wrapping
\* around, and leaves current_phase unchanged.
C30_PriorityRotates ==
    [][\A p \in Players :
           (/\ pass_priority(p)
            /\ priority_passed \cup {p} # Players
            /\ Holder # NoPlayer)
           => /\ priority_player' = Follower(Holder)
              /\ current_phase' = current_phase]_vars

\* the opponent, active and holding priority with no holder set, has passed
\* alone: priority has wrapped around to the first player
C30_Witness ==
    /\ last = Call("pass_priority", OpponentId, TRUE)
    /\ active_player = OpponentId
    /\ priority_passed = {OpponentId}
    /\ priority_player = SelfId


----------------------------------------------------------------------------
(* Claims about the order of payment *)

\* the letter a colour's pips are written with in a cost expression
PipLetter(color) ==
    CASE color = "white" -> "W" [] color = "blue" -> "U" [] color = "black" -> "B"
      [] color = "red" -> "R" [] color = "green" -> "G" [] color = "colorless" -> "C"

\* what is left of the counter of Colors[i] once the cost's own pips of that
\* colour are taken from it
AfterPips(cost_string, pool, i) ==
    pool[Colors[i]] - PipCount(cost_string, PipLetter(Colors[i]))

\* what the counters before Colors[i] hold together once the pips are taken
RECURSIVE AheadOf(_, _, _)
AheadOf(cost_string, pool, i) ==
    IF i = 1 THEN 0
    ELSE AheadOf(cost_string, pool, i - 1) + AfterPips(cost_string, pool, i - 1)

\* the generic pips that fall on the counter of Colors[i]: those the
\* counters before it could not cover, as far as this counter reaches
GenericShare(cost_string, pool, i) ==
    LET uncovered == GenericAmount(cost_string) - AheadOf(cost_string, pool, i)
        reach == AfterPips(cost_string, pool, i)
    IN IF uncovered <= 0 THEN 0 ELSE IF uncovered < reach THEN uncovered ELSE reach

\* the pool of the spec's example, {white: 2, colorless: 2}
ExamplePool == [ManaPool EXCEPT !["white"] = 2, !["colorless"] = 2]

\* C31: a successful pay_cost of a cost of colored and generic pips takes each
\* colored pip from its own counter and then each generic pip from the first
\* non-zero counter in the order white, blue, black, red, green, colorless, so
\* the pool's total drops by exactly the cost's total; {2}{W}{W} against
\* {white: 2, colorless: 2} is payable and leaves every counter at 0.
C31_PaymentOrder ==
    \A p \in ManaPlayers :
        /\ \A cost_string \in BasicCosts :
               LET paid == pay_cost(cost_string, PlayerOf(p))
               IN paid.ret =>
                      /\ \A i \in 1..Len(Colors) :
                             paid.player.mana_pool[Colors[i]]
                                 = AfterPips(cost_string, mana_pool[p], i)
                                       - GenericShare(cost_string, mana_pool[p], i)
                      /\ total_mana(paid.player.mana_pool)
                             = total_mana(mana_pool[p])
                                   - (Len(cost_string) - PipCount(cost_string, "1")
                                          - PipCount(cost_string, "2"))
                                   - GenericAmount(cost_string)
        /\ pay_cost(<< <<"2">>, <<"W">>, <<"W">> >>,
                    [PlayerOf(p) EXCEPT !.mana_pool = ExamplePool])
               = [ret |-> TRUE, player |-> [PlayerOf(p) EXCEPT !.mana_pool = ManaPool]]

\* pay_cost has just paid a cost and emptied the pool, and in this state a
\* pool of one blue and one colorless pays {1}{C} from the blue counter's
\* turn in the order: the colorless pip from its own counter, the generic
\* one from blue
C31_Witness ==
    /\ last = Call("pay_cost", SelfId, TRUE)
    /\ mana_pool[SelfId] = ManaPool
    /\ pay_cost(<< <<"1">>, <<"C">> >>,
                [PlayerOf(SelfId) EXCEPT
                     !.mana_pool = [ManaPool EXCEPT !["blue"] = 1, !["colorless"] = 1]])
           = [ret |-> TRUE, player |-> PlayerOf(SelfId)]


----------------------------------------------------------------------------
(* Claims about the legality pipeline and the rule systems *)

\* the action of casting a card, as the engine builds it
CastOf(p, card) ==
    BaseAction(ActionType.CAST_SPELL, p, ActionTiming.ANY_TIME, <<card>>,
               Cards[card].mana_cost)

\* C32: a cast-spell action is reported legal, by is_action_legal or by its
\* presence in the list get_legal_actions returns, only if
\* ManaSystem.can_pay_cost holds for the spell's mana cost against the
\* player's current pool.
C32_LegalCastIsAffordable ==
    /\ [](\A p \in PlayPlayers, card \in QueryCards :
              is_action_legal(CastOf(p, card)) =>
                  can_pay_cost(Cards[card].mana_cost, PlayerOf(p)))
    /\ [][\A p \in PlayPlayers :
              get_legal_actions(p, TRUE) =>
                  \A k \in 1..Len(legal_actions_cache'[p]) :
                      LET action == legal_actions_cache'[p][k]
                      IN action.action_type = ActionType.CAST_SPELL =>
                             can_pay_cost(action.mana_cost, PlayerOf(p))]_vars


\* the card is legendary or a planeswalker, and the player controls a
\* permanent of its name that is
NameRuleBars(card, p) ==
    \/ _is_legendary(card) /\ ~_can_play_legendary(card, p)
    \/ In(CardType.PLANESWALKER, Cards[card].card_types) /\ ~_can_play_planeswalker(card, p)

\* C33: a freshly generated list of get_legal_actions holds no play or cast
\* action for a legendary card, or a planeswalker, of the player's hand while
\* the player controls a legendary permanent, or a planeswalker, of the same
\* name.
C33_LegalActionsApplyNameRule ==
    [][\A p \in PlayPlayers :
          get_legal_actions(p, TRUE) =>
              \A k \in 1..Len(legal_actions_cache'[p]) :
                  LET action == legal_actions_cache'[p][k]
                  IN (/\ action.action_type \in {ActionType.PLAY_LAND, ActionType.CAST_SPELL}
                      /\ In(action.cards[1], hand[p]))
                     => ~NameRuleBars(action.cards[1], p)]_vars


\* the action of playing the basic land, as the timing test builds it
PlayLandOf(p) ==
    BaseAction(ActionType.PLAY_LAND, p, ActionTiming.MAIN_PHASE, <<4>>, <<>>)

\* C34: for a registered, alive player in an active match, a PLAY_LAND action
\* passes TimingRules.can_perform_action when current_phase is FirstMain or
\* SecondMain, and is rejected in every other phase.
C34_PlayLandPassesInMainPhases ==
    \A p \in Players :
        (status = "active" /\ is_alive(p)) =>
            (can_perform_action(PlayLandOf(p), p)
                 <=> current_phase \in {Phase.FIRST_MAIN, Phase.SECOND_MAIN})


----------------------------------------------------------------------------
(* Claims about who holds priority *)

\* C35: at most one player has priority at a time: when player A is the
\* active player and nobody has passed, _player_has_priority is true for A
\* and false for the other player; after A passes priority it is true for
\* the other player and false for A.
C35_OnePlayerHasPriority ==
    /\ [](\A a \in Players :
              (active_player = a /\ priority_passed = {}) =>
                  /\ _player_has_priority(a)
                  /\ \A q \in Players \ {a} : ~_player_has_priority(q))
    /\ [][\A a \in Players :
              (pass_priority(a) /\ active_player = a /\ priority_passed = {}) =>
                  /\ ~_player_has_priority(a)'
                  /\ \A q \in Players \ {a} : _player_has_priority(q)']_vars


----------------------------------------------------------------------------
(* Claims about the actions returned *)

\* C36: every action returned by get_legal_actions is marked legal: its
\* legal flag is true, which is what is_legal() returns, and it carries no
\* rejection reason. Stated of the lists generated by the call.
C36_ReturnedActionsAreMarkedLegal ==
    [][\A p \in Players :
          get_legal_actions(p, TRUE) =>
              \A k \in 1..Len(legal_actions_cache'[p]) :
                  /\ legal_actions_cache'[p][k].legal
                  /\ ReasonAfterIsActionLegal(legal_actions_cache'[p][k]) = NoReason]_vars


\* C37: the priority holder is never a player who has already passed: in
\* every reachable state priority_player is not in the pass set, so after a
\* pass_priority(p) that does not advance the phase, priority_player differs
\* from p.
C37_HolderHasNotPassed ==
    /\ [](priority_player \notin priority_passed)
    /\ [][\A p \in Players :
              (pass_priority(p) /\ ~_all_players_passed_priority(priority_passed \cup {p}))
                  => priority_player' # p]_vars


----------------------------------------------------------------------------
(* Claims about what a new phase, a new turn and a new match leave behind *)

\* C38: the pass set only records passes made in the current phase: whenever
\* current_phase changes, by the resolution of the passes or by a phase
\* change applied from outside (set_phase, a PHASE_CHANGE event), the pass
\* set is empty afterwards.
C38_PassSetEmptyInNewPhase ==
    [][current_phase' # current_phase => priority_passed' = {}]_vars


\* no player has a turn flag set or an ability marked as used
TurnFlagsClear ==
    \A p \in Players :
        /\ ~has_played_land_this_turn[p]
        /\ ~has_attacked_this_turn[p]
        /\ has_used_ability_this_turn[p] = {}

\* C39: the flags of a turn never carry over into another turn: whenever
\* turn_number changes, by the Cleanup transition, by next_turn() or by an
\* applied TURN_CHANGE event, both players' has_played_land_this_turn and
\* has_attacked_this_turn are false and their used-ability sets are empty in
\* the resulting state.
C39_TurnFlagsEndWithTheTurn ==
    [][turn_number' # turn_number => TurnFlagsClear']_vars


\* the players as initialize_game makes them: the starting life, nothing in
\* hand, on the battlefield or in the mana pool, no turn flag set
PlayersFresh ==
    \A p \in Players :
        /\ life_total[p] = StartingLife
        /\ hand[p] = <<>>
        /\ battlefield[p] = Battlefield
        /\ mana_pool[p] = ManaPool
        /\ ~has_played_land_this_turn[p]
        /\ ~has_attacked_this_turn[p]
        /\ has_used_ability_this_turn[p] = {}

\* C40: starting a new match discards the previous one: after
\* initialize_game returns, turn_number is 0, both players have the starting
\* life with empty hand, battlefield and mana pool and clear turn flags, and
\* no current_phase, active_player, priority_player or pass-set entry of the
\* previous match survives.
C40_NewMatchDiscardsTheOld ==
    [][last'.op = "initialize_game" =>
          /\ turn_number' = 0
          /\ PlayersFresh'
          /\ current_phase' = NoPhase
          /\ active_player' = NoPlayer
          /\ priority_player' = NoPlayer
          /\ priority_passed' = {}]_vars

====
